---- MODULE Spec2Model ----
(***************************************************************************)
(* SecureCargoFlow: the shipment record store, its append-only event log,  *)
(* the status transition engine and the creator reassignment, as a state   *)
(* machine over the contract's storage.  Two revisions of the contract are *)
(* modelled side by side; the variable `variant` says which one has been   *)
(* deployed:                                                               *)
(*   "contracts" : src/contracts/SecureCargoFlow.sol (plaintext events)    *)
(*   "part_001"  : src/unnamed/part_001 (events carry ciphertext handles)  *)
(* One step of the model is one transaction (or one advance of the ledger  *)
(* clock).  A reverted transaction leaves the storage as it was; its       *)
(* revert reason is recorded in lastCall.err.                              *)
(***************************************************************************)
EXTENDS Integers, Sequences, FiniteSets, TLC

VARIABLES
    variant,         \* which revision of the contract is deployed
    owner,           \* address public owner
    locked,          \* bool private locked
    shipments,       \* mapping(string => Shipment)
    cargoEvents,     \* mapping(string => CargoEvent[])
    eventCounts,     \* mapping(string => uint256)
    totalShipments,  \* uint256 public totalShipments
    acl,             \* decrypt capabilities granted through FHE.allow / FHE.allowThis
    now,             \* block.timestamp
    steps,           \* transactions mined and clock advances so far (bounded by MaxSteps)
    lastCall,        \* the last transaction: operation, caller, arguments, revert reason, logs
    hook             \* the useFHEVM hook of the web client: its React state and pending work

storage == <<owner, locked, shipments, cargoEvents, eventCounts, totalShipments, acl>>
vars == <<variant, owner, locked, shipments, cargoEvents, eventCounts, totalShipments,
          acl, now, steps, lastCall, hook>>

----------------------------------------------------------------------------
(* Bounds of the model *)

MaxSteps == 4         \* transactions and clock advances in a run
StartTime == 1000     \* block.timestamp at deployment
MaxAttempts == 4      \* initializeFHE calls followed per wallet connection state
MaxWalletChanges == 3 \* connections and disconnections of the wallet in a run

----------------------------------------------------------------------------
(* Program constants *)

MIN_TRACKING_ID_LENGTH == 6
OneHour == 3600
OneYear == 31536000

Created == 0
InTransit == 1
CustomsClearance == 2
Arrived == 3
Delivered == 4
ShipmentStatus == {Created, InTransit, CustomsClearance, Arrived, Delivered}

Variants == {"contracts", "part_001"}

ZeroAddress == "0x0"
Accounts == {"alice", "bob"}
Deployer == "alice"
This == "this"

TrackingIds == {"CARGO1", "CARGO-002", "ABCDE", "ABC"}
Origins == {"Shanghai"}
Destinations == {"LA"}
Locations == {"", "Port"}
Descriptions == {"", "Loaded"}

ZeroHandle == "h0"
WeightHandles == {"w1", "w2"}
ByteHandles == {"b1", "b2"}

\* the ciphertext arguments of addCargoEvent, as pairs <<encWeight, encContentsBytes>>:
\* one weight without contents, another weight with two content bytes
EncryptedInputs == {<<"w1", <<>>>>, <<"w2", <<"b1", "b2">>>>}

\* clock advances: one second short of the dwell time, or the dwell time
Deltas == {OneHour - 1, OneHour}

\* estimatedDeliveryTimestamp arguments, at the two edges of the window
EstimatedDeliveries(t) == {t, t + OneYear, t + OneYear + 1}

----------------------------------------------------------------------------
(* Storage defaults and helpers *)

NoShipment ==
    [trackingId |-> "", origin |-> "", destination |-> "", createdAt |-> 0,
     estimatedDelivery |-> 0, creator |-> ZeroAddress, exists |-> FALSE]

Call(op, caller, id, arg, err, logs) ==
    [op |-> op, caller |-> caller, trackingId |-> id, arg |-> arg, err |-> err, logs |-> logs]

\* Every transaction and every clock advance is one step of the run.  A reverted
\* transaction ends the run: the storage after it is the storage before it, so whatever
\* follows it is already a continuation of the state it was sent in.
Step == /\ lastCall.err = ""
        /\ steps < MaxSteps
        /\ steps' = steps + 1
        /\ UNCHANGED hook

\* a reverted transaction: the storage is rolled back and nothing is logged; what the
\* caller sees is the revert reason
Revert(op, err) ==
    /\ lastCall' = Call(op, "", "", "", err, <<>>)
    /\ UNCHANGED <<variant, storage, now>>

----------------------------------------------------------------------------
(* Pure functions of the contract *)

_statusToString(status) ==
    IF status = Created THEN "Created"
    ELSE IF status = InTransit THEN "InTransit"
    ELSE IF status = CustomsClearance THEN "CustomsClearance"
    ELSE IF status = Arrived THEN "Arrived"
    ELSE IF status = Delivered THEN "Delivered"
    ELSE "Unknown"

\* string(abi.encodePacked("Status changed to ", _statusToString(newStatus)))
StatusDescription(newStatus) == "Status changed to " \o _statusToString(newStatus)

\* mutant: a transition table in which a delivered shipment can be opened again
_isValidStatusTransitionReopening(currentStatus, newStatus) ==
    IF currentStatus = Created /\ newStatus = InTransit THEN TRUE
    ELSE IF currentStatus = InTransit /\ newStatus = CustomsClearance THEN TRUE
    ELSE IF currentStatus = CustomsClearance /\ newStatus = Arrived THEN TRUE
    ELSE IF currentStatus = Arrived /\ newStatus = Delivered THEN TRUE
    ELSE IF currentStatus = Delivered /\ newStatus = Created THEN TRUE
    ELSE FALSE

\* mutant: a transition table that also lets Created jump to CustomsClearance
_isValidStatusTransitionSkipping(currentStatus, newStatus) ==
    IF currentStatus = Created /\ newStatus = InTransit THEN TRUE
    ELSE IF currentStatus = Created /\ newStatus = CustomsClearance THEN TRUE
    ELSE IF currentStatus = InTransit /\ newStatus = CustomsClearance THEN TRUE
    ELSE IF currentStatus = CustomsClearance /\ newStatus = Arrived THEN TRUE
    ELSE IF currentStatus = Arrived /\ newStatus = Delivered THEN TRUE
    ELSE FALSE

_isValidStatusTransition(currentStatus, newStatus) ==
    IF currentStatus = Created /\ newStatus = InTransit THEN TRUE
    ELSE IF currentStatus = InTransit /\ newStatus = CustomsClearance THEN TRUE
    ELSE IF currentStatus = CustomsClearance /\ newStatus = Arrived THEN TRUE
    ELSE IF currentStatus = Arrived /\ newStatus = Delivered THEN TRUE
    ELSE FALSE

\* mutant: the status read from the oldest event
StatusOfFirstEvent(events) ==
    IF Len(events) = 0 THEN Created ELSE events[1].status

\* the status read from an event list (the body of getCurrentStatus after its require)
StatusOf(events) ==
    IF Len(events) = 0 THEN Created ELSE events[Len(events)].status

\* getCurrentStatus(trackingId); "revert" stands for the failed require
getCurrentStatus(id) ==
    IF ~shipments[id].exists THEN "revert" ELSE StatusOf(cargoEvents[id])

----------------------------------------------------------------------------
(* Notifications *)

ShipmentCreated(id, creator, origin, destination, estimatedDelivery) ==
    [name |-> "ShipmentCreated", trackingId |-> id, creator |-> creator, origin |-> origin,
     destination |-> destination, estimatedDelivery |-> estimatedDelivery]

CargoEventAdded(id, eventId, creator, location, status) ==
    [name |-> "CargoEventAdded", trackingId |-> id, eventId |-> eventId, creator |-> creator,
     location |-> location, status |-> status]

StatusUpdated(id, eventId, creator, oldStatus, newStatus) ==
    [name |-> "StatusUpdated", trackingId |-> id, eventId |-> eventId, creator |-> creator,
     oldStatus |-> oldStatus, newStatus |-> newStatus]

----------------------------------------------------------------------------
(* createShipment *)

\* mutant: createShipment without its existence require
createShipmentErrNoDuplicateCheck(id, estimatedDeliveryTimestamp) ==
    IF ~(Len(id) >= MIN_TRACKING_ID_LENGTH) THEN "Tracking ID too short"
    ELSE IF ~(estimatedDeliveryTimestamp > now) THEN "Estimated delivery must be in the future"
    ELSE IF ~(estimatedDeliveryTimestamp <= now + OneYear)
         THEN "Estimated delivery cannot be more than 1 year in the future"
    ELSE ""

\* the require chain of createShipment: the revert reason, "" when every require passes
\* mutant: createShipment refusing a delivery exactly one year ahead
createShipmentErrUnderOneYear(id, estimatedDeliveryTimestamp) ==
    IF shipments[id].exists THEN "Shipment already exists"
    ELSE IF ~(Len(id) >= MIN_TRACKING_ID_LENGTH) THEN "Tracking ID too short"
    ELSE IF ~(estimatedDeliveryTimestamp > now) THEN "Estimated delivery must be in the future"
    ELSE IF ~(estimatedDeliveryTimestamp < now + OneYear)
         THEN "Estimated delivery cannot be more than 1 year in the future"
    ELSE ""

createShipmentErr(id, estimatedDeliveryTimestamp) ==
    IF shipments[id].exists THEN "Shipment already exists"
    ELSE IF ~(Len(id) >= MIN_TRACKING_ID_LENGTH) THEN "Tracking ID too short"
    ELSE IF ~(estimatedDeliveryTimestamp > now) THEN "Estimated delivery must be in the future"
    ELSE IF ~(estimatedDeliveryTimestamp <= now + OneYear)
         THEN "Estimated delivery cannot be more than 1 year in the future"
    ELSE ""

\* mutant: the stored struct names the contract owner as creator
NewShipmentOfOwner(sender, id, origin, destination, estimatedDeliveryTimestamp) ==
    [trackingId |-> id, origin |-> origin, destination |-> destination, createdAt |-> now,
     estimatedDelivery |-> estimatedDeliveryTimestamp, creator |-> owner, exists |-> TRUE]

\* the struct stored by createShipment
NewShipment(sender, id, origin, destination, estimatedDeliveryTimestamp) ==
    [trackingId |-> id, origin |-> origin, destination |-> destination, createdAt |-> now,
     estimatedDelivery |-> estimatedDeliveryTimestamp, creator |-> sender, exists |-> TRUE]

\* mutant: a createShipment that stores the shipment without counting it
createShipmentNotCounting(sender, id, origin, destination, est) ==
    LET err == createShipmentErr(id, est) IN
    IF err # "" THEN Revert("createShipment", err)
    ELSE /\ shipments' = [shipments EXCEPT ![id] = NewShipment(sender, id, origin, destination, est)]
         /\ lastCall' = Call("createShipment", sender, id, est, "",
                             <<ShipmentCreated(id, sender, origin, destination, est)>>)
         /\ UNCHANGED <<variant, owner, locked, cargoEvents, eventCounts, totalShipments, acl, now>>

createShipment(sender, id, origin, destination, est) ==
    LET err == createShipmentErr(id, est) IN
    IF err # "" THEN Revert("createShipment", err)
    ELSE /\ shipments' = [shipments EXCEPT ![id] = NewShipment(sender, id, origin, destination, est)]
         /\ totalShipments' = totalShipments + 1
         /\ lastCall' = Call("createShipment", sender, id, est, "",
                             <<ShipmentCreated(id, sender, origin, destination, est)>>)
         /\ UNCHANGED <<variant, owner, locked, cargoEvents, eventCounts, acl, now>>

----------------------------------------------------------------------------
(* addCargoEvent *)

\* the require chain of addCargoEvent (the same four requires in both revisions)
\* mutant: addCargoEvent checking the location before the creator
addCargoEventErrLocationFirst(sender, id, location, description) ==
    IF ~shipments[id].exists THEN "Shipment does not exist"
    ELSE IF ~(Len(location) > 0) THEN "Location cannot be empty"
    ELSE IF ~(shipments[id].creator = sender) THEN "Only shipment creator can add events"
    ELSE IF ~(Len(description) > 0) THEN "Description cannot be empty"
    ELSE ""

\* mutant: addCargoEvent without its creator require
addCargoEventErrNoCreatorCheck(sender, id, location, description) ==
    IF ~shipments[id].exists THEN "Shipment does not exist"
    ELSE IF ~(Len(location) > 0) THEN "Location cannot be empty"
    ELSE IF ~(Len(description) > 0) THEN "Description cannot be empty"
    ELSE ""

addCargoEventErr(sender, id, location, description) ==
    IF ~shipments[id].exists THEN "Shipment does not exist"
    ELSE IF ~(shipments[id].creator = sender) THEN "Only shipment creator can add events"
    ELSE IF ~(Len(location) > 0) THEN "Location cannot be empty"
    ELSE IF ~(Len(description) > 0) THEN "Description cannot be empty"
    ELSE ""

\* the CargoEvent pushed by the plaintext revision
\* mutant: an event stamped with the creation time of its shipment
NewCargoEventStampedAtCreation(id, location, status, description) ==
    [eventId |-> eventCounts[id], trackingId |-> id, timestamp |-> shipments[id].createdAt,
     location |-> location, status |-> status, description |-> description]

NewCargoEvent(id, location, status, description) ==
    [eventId |-> eventCounts[id], trackingId |-> id, timestamp |-> now, location |-> location,
     status |-> status, description |-> description]

\* mutant: the push without the increment of eventCounts
PushEventNoIncrement(id, event) ==
    /\ cargoEvents' = [cargoEvents EXCEPT ![id] = Append(@, event)]
    /\ eventCounts' = eventCounts

\* mutant: a push that writes over the latest event of a list that has one
PushEventOverLatest(id, event) ==
    /\ cargoEvents' = [cargoEvents EXCEPT ![id] =
                           IF Len(@) = 0 THEN Append(@, event)
                           ELSE Append([@ EXCEPT ![Len(@)] = event], event)]
    /\ eventCounts' = [eventCounts EXCEPT ![id] = @ + 1]

\* mutant: a push into one list shared by every existing shipment
PushEventShared(id, event) ==
    /\ cargoEvents' = [k \in TrackingIds |->
                           IF shipments[k].exists THEN Append(cargoEvents[k], event)
                           ELSE cargoEvents[k]]
    /\ eventCounts' = [k \in TrackingIds |->
                           IF shipments[k].exists THEN eventCounts[k] + 1
                           ELSE eventCounts[k]]

\* cargoEvents[trackingId].push(...); eventCounts[trackingId]++
PushEvent(id, event) ==
    /\ cargoEvents' = [cargoEvents EXCEPT ![id] = Append(@, event)]
    /\ eventCounts' = [eventCounts EXCEPT ![id] = @ + 1]

\* addCargoEvent of src/contracts/SecureCargoFlow.sol
addCargoEvent(sender, id, location, status, description) ==
    LET err == addCargoEventErr(sender, id, location, description) IN
    IF err # "" THEN Revert("addCargoEvent", err)
    ELSE /\ PushEvent(id, NewCargoEvent(id, location, status, description))
         /\ lastCall' = Call("addCargoEvent", sender, id, <<location, description>>, "",
                             <<CargoEventAdded(id, eventCounts[id], sender, location, status)>>)
         /\ UNCHANGED <<variant, owner, locked, shipments, totalShipments, acl, now>>

\* FHE.fromExternal over the supplied handles: the proof is verified once per handle,
\* and a proof that does not attest the handles reverts the transaction
ImportErr(weightProofOk, encContentsBytes, proofOk) ==
    IF ~weightProofOk THEN "ProofVerificationError"
    ELSE IF Len(encContentsBytes) > 0 /\ ~proofOk THEN "ProofVerificationError"
    ELSE ""

\* mutant: FHE.allow(h, msg.sender) without FHE.allowThis(h)
GrantsSenderOnly(sender, handle) == {<<handle, sender>>}

\* FHE.allowThis(h); FHE.allow(h, msg.sender)
Grants(sender, handle) == {<<handle, This>>, <<handle, sender>>}

\* the capabilities granted by _importEncryptedWeight
_importEncryptedWeight(sender, encWeight) == Grants(sender, encWeight)

\* the capabilities granted by _importEncryptedContents
_importEncryptedContents(sender, encContentsBytes) ==
    UNION {Grants(sender, encContentsBytes[i]) : i \in 1..Len(encContentsBytes)}

\* FHE.fromExternal on a handle its proof attests: the handle admitted is the handle
\* that was supplied, now typed euint32 or euint8
fromExternal(handle) == handle

\* the euint32 returned by _importEncryptedWeight
ImportedWeight(encWeight) == fromExternal(encWeight)

\* mutant: an import loop that fills contents from the last supplied handle backwards
ImportedContentsReversed(encContentsBytes) ==
    [i \in 1..Len(encContentsBytes) |->
        fromExternal(encContentsBytes[Len(encContentsBytes) + 1 - i])]

\* the euint8[] returned by _importEncryptedContents: contents[i] is the import of
\* encContentsBytes[i]
ImportedContents(encContentsBytes) ==
    [i \in 1..Len(encContentsBytes) |-> fromExternal(encContentsBytes[i])]

\* the CargoEvent written by the encrypted revision of addCargoEvent
NewEncryptedEvent(id, location, status, description, weight, contents) ==
    [eventId |-> eventCounts[id], trackingId |-> id, timestamp |-> now, location |-> location,
     status |-> status, description |-> description, encryptedWeight |-> weight,
     encContentsBytes |-> contents]

\* mutant: a failed proof verification that keeps the increment of eventCounts made before it
addCargoEventEncryptedNoRollback(sender, id, location, status, description, encWeight, weightProofOk, encContentsBytes, proofOk) ==
    LET err == addCargoEventErr(sender, id, location, description)
        imp == ImportErr(weightProofOk, encContentsBytes, proofOk)
    IN
    IF err # "" THEN Revert("addCargoEvent", err)
    ELSE IF imp # ""
    THEN /\ eventCounts' = [eventCounts EXCEPT ![id] = @ + 1]
         /\ lastCall' = Call("addCargoEvent", "", "", "", imp, <<>>)
         /\ UNCHANGED <<variant, owner, locked, shipments, cargoEvents, totalShipments, acl, now>>
    ELSE /\ PushEvent(id, NewEncryptedEvent(id, location, status, description,
                                            ImportedWeight(encWeight),
                                            ImportedContents(encContentsBytes)))
         /\ acl' = acl \cup _importEncryptedWeight(sender, encWeight)
                       \cup _importEncryptedContents(sender, encContentsBytes)
         /\ lastCall' = Call("addCargoEvent", sender, id,
                             <<location, description, encWeight, encContentsBytes>>, "",
                             <<CargoEventAdded(id, eventCounts[id], sender, location, status)>>)
         /\ UNCHANGED <<variant, owner, locked, shipments, totalShipments, now>>

\* addCargoEvent of src/unnamed/part_001
addCargoEventEncrypted(sender, id, location, status, description, encWeight, weightProofOk, encContentsBytes, proofOk) ==
    LET err == addCargoEventErr(sender, id, location, description)
        imp == ImportErr(weightProofOk, encContentsBytes, proofOk)
    IN
    IF err # "" THEN Revert("addCargoEvent", err)
    ELSE IF imp # "" THEN Revert("addCargoEvent", imp)
    ELSE /\ PushEvent(id, NewEncryptedEvent(id, location, status, description,
                                            ImportedWeight(encWeight),
                                            ImportedContents(encContentsBytes)))
         /\ acl' = acl \cup _importEncryptedWeight(sender, encWeight)
                       \cup _importEncryptedContents(sender, encContentsBytes)
         /\ lastCall' = Call("addCargoEvent", sender, id,
                             <<location, description, encWeight, encContentsBytes>>, "",
                             <<CargoEventAdded(id, eventCounts[id], sender, location, status)>>)
         /\ UNCHANGED <<variant, owner, locked, shipments, totalShipments, now>>

----------------------------------------------------------------------------
(* updateShipmentStatus *)

\* the require chain of updateShipmentStatus
\* mutant: the one-hour gate counted from the latest event instead of from creation
updateShipmentStatusErrSinceLastEvent(sender, id, newStatus) ==
    IF ~shipments[id].exists THEN "Shipment does not exist"
    ELSE IF ~(shipments[id].creator = sender) THEN "Only shipment creator can update status"
    ELSE IF ~(getCurrentStatus(id) # newStatus) THEN "Status already set"
    ELSE IF ~_isValidStatusTransition(getCurrentStatus(id), newStatus)
         THEN "Invalid status transition"
    ELSE IF ~(now >= (IF Len(cargoEvents[id]) = 0 THEN shipments[id].createdAt
                      ELSE cargoEvents[id][Len(cargoEvents[id])].timestamp) + OneHour)
         THEN "Too early for status change"
    ELSE ""

\* mutant: updateShipmentStatus without its "Status already set" require
updateShipmentStatusErrNoSameCheck(sender, id, newStatus) ==
    IF ~shipments[id].exists THEN "Shipment does not exist"
    ELSE IF ~(shipments[id].creator = sender) THEN "Only shipment creator can update status"
    ELSE IF ~_isValidStatusTransition(getCurrentStatus(id), newStatus)
         THEN "Invalid status transition"
    ELSE IF ~(now >= shipments[id].createdAt + OneHour) THEN "Too early for status change"
    ELSE ""

\* mutant: a dwell time of one hour for every stage already passed
updateShipmentStatusErrHourPerStage(sender, id, newStatus) ==
    IF ~shipments[id].exists THEN "Shipment does not exist"
    ELSE IF ~(shipments[id].creator = sender) THEN "Only shipment creator can update status"
    ELSE IF ~(getCurrentStatus(id) # newStatus) THEN "Status already set"
    ELSE IF ~_isValidStatusTransition(getCurrentStatus(id), newStatus)
         THEN "Invalid status transition"
    ELSE IF ~(now >= shipments[id].createdAt + OneHour * (Len(cargoEvents[id]) + 1))
         THEN "Too early for status change"
    ELSE ""

\* mutant: the dwell time checked before the transition
updateShipmentStatusErrGateFirst(sender, id, newStatus) ==
    IF ~shipments[id].exists THEN "Shipment does not exist"
    ELSE IF ~(shipments[id].creator = sender) THEN "Only shipment creator can update status"
    ELSE IF ~(now >= shipments[id].createdAt + OneHour) THEN "Too early for status change"
    ELSE IF ~(getCurrentStatus(id) # newStatus) THEN "Status already set"
    ELSE IF ~_isValidStatusTransition(getCurrentStatus(id), newStatus)
         THEN "Invalid status transition"
    ELSE ""

updateShipmentStatusErr(sender, id, newStatus) ==
    IF ~shipments[id].exists THEN "Shipment does not exist"
    ELSE IF ~(shipments[id].creator = sender) THEN "Only shipment creator can update status"
    ELSE IF ~(getCurrentStatus(id) # newStatus) THEN "Status already set"
    ELSE IF ~_isValidStatusTransition(getCurrentStatus(id), newStatus)
         THEN "Invalid status transition"
    ELSE IF ~(now >= shipments[id].createdAt + OneHour) THEN "Too early for status change"
    ELSE ""

\* mutant: StatusUpdated carrying the event count after the append, not the index of the
\* appended event
updateShipmentStatusCountAsEventId(sender, id, newStatus) ==
    LET err == updateShipmentStatusErr(sender, id, newStatus)
        inner == addCargoEventErr(sender, id, "Status Update", StatusDescription(newStatus))
        oldStatus == getCurrentStatus(id)
    IN
    IF err # "" THEN Revert("updateShipmentStatus", err)
    ELSE IF inner # "" THEN Revert("updateShipmentStatus", inner)
    ELSE /\ PushEvent(id, NewCargoEvent(id, "Status Update", newStatus,
                                        StatusDescription(newStatus)))
         /\ lastCall' = Call("updateShipmentStatus", sender, id, newStatus, "",
                <<CargoEventAdded(id, eventCounts[id], sender, "Status Update", newStatus),
                  StatusUpdated(id, eventCounts'[id], sender, oldStatus, newStatus)>>)
         /\ UNCHANGED <<variant, owner, locked, shipments, totalShipments, acl, now>>

\* updateShipmentStatus of src/contracts/SecureCargoFlow.sol: it appends through addCargoEvent
updateShipmentStatus(sender, id, newStatus) ==
    LET err == updateShipmentStatusErr(sender, id, newStatus)
        inner == addCargoEventErr(sender, id, "Status Update", StatusDescription(newStatus))
        oldStatus == getCurrentStatus(id)
    IN
    IF err # "" THEN Revert("updateShipmentStatus", err)
    ELSE IF inner # "" THEN Revert("updateShipmentStatus", inner)
    ELSE /\ PushEvent(id, NewCargoEvent(id, "Status Update", newStatus,
                                        StatusDescription(newStatus)))
         /\ lastCall' = Call("updateShipmentStatus", sender, id, newStatus, "",
                <<CargoEventAdded(id, eventCounts[id], sender, "Status Update", newStatus),
                  StatusUpdated(id, eventCounts'[id] - 1, sender, oldStatus, newStatus)>>)
         /\ UNCHANGED <<variant, owner, locked, shipments, totalShipments, acl, now>>

\* the require chain of _addCargoEventInternal
_addCargoEventInternalErr(id, location, description) ==
    IF ~shipments[id].exists THEN "Shipment does not exist"
    ELSE IF ~(Len(location) > 0) THEN "Location cannot be empty"
    ELSE IF ~(Len(description) > 0) THEN "Description cannot be empty"
    ELSE ""

\* mutant: the ciphertext reused is that of the latest event
InternalEventFromLatest(id, location, status, description) ==
    LET n == Len(cargoEvents[id])
        prevWeight == IF n > 0 THEN cargoEvents[id][n].encryptedWeight ELSE ZeroHandle
        prevContents == IF n > 0 THEN cargoEvents[id][n].encContentsBytes ELSE <<>>
    IN NewEncryptedEvent(id, location, status, description, prevWeight, prevContents)

\* the CargoEvent pushed by _addCargoEventInternal: the ciphertext is that of event 0,
\* or the uninitialised handle and no contents when the list is empty
InternalEvent(id, location, status, description) ==
    LET prevWeight == IF Len(cargoEvents[id]) > 0 THEN cargoEvents[id][1].encryptedWeight
                      ELSE ZeroHandle
        prevContents == IF Len(cargoEvents[id]) > 0 THEN cargoEvents[id][1].encContentsBytes
                        ELSE <<>>
    IN NewEncryptedEvent(id, location, status, description, prevWeight, prevContents)

\* updateShipmentStatus of src/unnamed/part_001: it appends through _addCargoEventInternal
updateShipmentStatusEncrypted(sender, id, newStatus) ==
    LET err == updateShipmentStatusErr(sender, id, newStatus)
        inner == _addCargoEventInternalErr(id, "Status Update", StatusDescription(newStatus))
        oldStatus == getCurrentStatus(id)
    IN
    IF err # "" THEN Revert("updateShipmentStatus", err)
    ELSE IF inner # "" THEN Revert("updateShipmentStatus", inner)
    ELSE /\ PushEvent(id, InternalEvent(id, "Status Update", newStatus,
                                        StatusDescription(newStatus)))
         /\ lastCall' = Call("updateShipmentStatus", sender, id, newStatus, "",
                <<CargoEventAdded(id, eventCounts[id], sender, "Status Update", newStatus),
                  StatusUpdated(id, eventCounts'[id] - 1, sender, oldStatus, newStatus)>>)
         /\ UNCHANGED <<variant, owner, locked, shipments, totalShipments, acl, now>>

----------------------------------------------------------------------------
(* reconnectWallet, emergencyPause *)

\* modifier nonReentrant, its entry check
nonReentrantErr == IF ~(~locked) THEN "Reentrant call" ELSE ""

\* the require chain of reconnectWallet in src/contracts/SecureCargoFlow.sol
reconnectWalletErr(sender, id, newWallet) ==
    IF nonReentrantErr # "" THEN nonReentrantErr
    ELSE IF ~shipments[id].exists THEN "Shipment does not exist"
    ELSE IF ~(newWallet = sender) THEN "Invalid wallet"
    ELSE ""

\* the value reconnectWallet of src/contracts/SecureCargoFlow.sol stores in creator
ReconnectedCreator(newWallet) == ZeroAddress

\* mutant: a reconnectWallet that also restarts the shipment's clock
reconnectWalletRestartingClock(sender, id, newWallet) ==
    LET err == reconnectWalletErr(sender, id, newWallet) IN
    IF err # "" THEN Revert("reconnectWallet", err)
    ELSE /\ shipments' = [shipments EXCEPT ![id].creator = ReconnectedCreator(newWallet),
                                           ![id].createdAt = now]
         /\ locked' = FALSE
         /\ lastCall' = Call("reconnectWallet", sender, id, newWallet, "",
                <<ShipmentCreated(id, newWallet, shipments[id].origin,
                                  shipments[id].destination, shipments[id].estimatedDelivery)>>)
         /\ UNCHANGED <<variant, owner, cargoEvents, eventCounts, totalShipments, acl, now>>

\* reconnectWallet of src/contracts/SecureCargoFlow.sol
reconnectWallet(sender, id, newWallet) ==
    LET err == reconnectWalletErr(sender, id, newWallet) IN
    IF err # "" THEN Revert("reconnectWallet", err)
    ELSE /\ shipments' = [shipments EXCEPT ![id].creator = ReconnectedCreator(newWallet)]
         /\ locked' = FALSE
         /\ lastCall' = Call("reconnectWallet", sender, id, newWallet, "",
                <<ShipmentCreated(id, newWallet, shipments[id].origin,
                                  shipments[id].destination, shipments[id].estimatedDelivery)>>)
         /\ UNCHANGED <<variant, owner, cargoEvents, eventCounts, totalShipments, acl, now>>

\* the require chain of reconnectWallet in src/unnamed/part_001
reconnectWalletCheckedErr(sender, id, newWallet) ==
    IF nonReentrantErr # "" THEN nonReentrantErr
    ELSE IF ~shipments[id].exists THEN "Shipment does not exist"
    ELSE IF ~(shipments[id].creator = sender) THEN "Only current creator can reconnect wallet"
    ELSE IF ~(newWallet # ZeroAddress) THEN "New wallet cannot be zero address"
    ELSE IF ~(newWallet # sender) THEN "New wallet must be different from current"
    ELSE ""

\* mutant: a reconnectWallet that takes the capabilities of the old creator away
reconnectWalletCheckedRevoking(sender, id, newWallet) ==
    LET err == reconnectWalletCheckedErr(sender, id, newWallet) IN
    IF err # "" THEN Revert("reconnectWallet", err)
    ELSE /\ shipments' = [shipments EXCEPT ![id].creator = newWallet]
         /\ locked' = FALSE
         /\ acl' = {g \in acl : g[2] # sender}
         /\ lastCall' = Call("reconnectWallet", sender, id, newWallet, "",
                <<ShipmentCreated(id, newWallet, shipments[id].origin,
                                  shipments[id].destination, shipments[id].estimatedDelivery)>>)
         /\ UNCHANGED <<variant, owner, cargoEvents, eventCounts, totalShipments, now>>

\* mutant: a reconnectWallet that lets the new wallet decrypt the weights already stored
reconnectWalletCheckedGranting(sender, id, newWallet) ==
    LET err == reconnectWalletCheckedErr(sender, id, newWallet) IN
    IF err # "" THEN Revert("reconnectWallet", err)
    ELSE /\ shipments' = [shipments EXCEPT ![id].creator = newWallet]
         /\ locked' = FALSE
         /\ acl' = acl \cup {<<cargoEvents[id][i].encryptedWeight, newWallet>> :
                                 i \in 1..Len(cargoEvents[id])}
         /\ lastCall' = Call("reconnectWallet", sender, id, newWallet, "",
                <<ShipmentCreated(id, newWallet, shipments[id].origin,
                                  shipments[id].destination, shipments[id].estimatedDelivery)>>)
         /\ UNCHANGED <<variant, owner, cargoEvents, eventCounts, totalShipments, now>>

\* reconnectWallet of src/unnamed/part_001
reconnectWalletChecked(sender, id, newWallet) ==
    LET err == reconnectWalletCheckedErr(sender, id, newWallet) IN
    IF err # "" THEN Revert("reconnectWallet", err)
    ELSE /\ shipments' = [shipments EXCEPT ![id].creator = newWallet]
         /\ locked' = FALSE
         /\ lastCall' = Call("reconnectWallet", sender, id, newWallet, "",
                <<ShipmentCreated(id, newWallet, shipments[id].origin,
                                  shipments[id].destination, shipments[id].estimatedDelivery)>>)
         /\ UNCHANGED <<variant, owner, cargoEvents, eventCounts, totalShipments, acl, now>>

\* mutant: emergencyPause behind the onlyOwner modifier
emergencyPauseOnlyOwner(sender) ==
    IF ~(sender = owner) THEN Revert("emergencyPause", "Only owner can call this function")
    ELSE /\ locked' = TRUE
         /\ lastCall' = Call("emergencyPause", sender, "", "", "", <<>>)
         /\ UNCHANGED <<variant, owner, shipments, cargoEvents, eventCounts, totalShipments,
                        acl, now>>

\* emergencyPause: any caller, no modifier
emergencyPause(sender) ==
    /\ locked' = TRUE
    /\ lastCall' = Call("emergencyPause", sender, "", "", "", <<>>)
    /\ UNCHANGED <<variant, owner, shipments, cargoEvents, eventCounts, totalShipments,
                   acl, now>>

----------------------------------------------------------------------------
(* The ledger clock *)

Tick(d) ==
    /\ now' = now + d
    /\ lastCall' = Call("tick", "", "", d, "", <<>>)
    /\ UNCHANGED <<variant, storage>>

----------------------------------------------------------------------------
(* The useFHEVM hook of src/ui/src/hooks/useSecureCargoFlow.tsx              *)
(*                                                                           *)
(* hook is a record: the five useState cells (instance, isInitializing,      *)
(* error, isInitialized, retryCount), the wallet as useAccount reports it    *)
(* (address, chainId and window.ethereum are present exactly when            *)
(* isConnected), the memoized initializeFHE (callback), the dependencies the *)
(* last render saw (rendered), the createFhevmInstance promises in flight    *)
(* (pending) and the setTimeout callbacks not yet run (timers), each with    *)
(* the function that made it. attempts, retries and changes observe the run: *)
(* createFhevmInstance calls and timer-driven calls since the wallet last    *)
(* changed, and the number of wallet changes.                                *)

NoInstance == "null"
FheInstance == "fheInstance"
NoError == "null"

\* what createFhevmInstance does: it resolves, or rejects with one of two messages
Outcomes == {"resolved", "network request failed", "unsupported chain"}

\* errorMessage.includes('network')
IncludesNetwork(errorMessage) == errorMessage = "network request failed"

\* the values an initializeFHE function closes over; useCallback makes a new one only
\* when isConnected, address or chainId change: retryCount is not a dependency
Closure(isConnected, retryCount) == [isConnected |-> isConnected, retryCount |-> retryCount]

\* the dependencies of the effect; initializeFHE changes exactly when isConnected does
Deps(h) ==
    [isConnected |-> h.isConnected, instance |-> h.instance, isInitializing |-> h.isInitializing]

\* the hook after mount with no wallet connected: the effect has run and done nothing
HookInit ==
    [instance |-> NoInstance, isInitializing |-> FALSE, error |-> NoError,
     isInitialized |-> FALSE, retryCount |-> 0, isConnected |-> FALSE,
     callback |-> Closure(FALSE, 0),
     rendered |-> [isConnected |-> FALSE, instance |-> NoInstance, isInitializing |-> FALSE],
     pending |-> <<>>, timers |-> <<>>, attempts |-> 0, retries |-> 0, changes |-> 0]

WithoutIndex(seq, i) == SubSeq(seq, 1, i - 1) \o SubSeq(seq, i + 1, Len(seq))

\* initializeFHE up to its await: the function f is called on the hook h
initializeFHE(h, f) ==
    IF ~f.isConnected THEN [h EXCEPT !.error = "Please connect your wallet first"]
    ELSE [h EXCEPT !.isInitializing = TRUE, !.error = NoError,
                   !.pending = Append(@, f), !.attempts = @ + 1]

\* initializeFHE after its await: the rest of try, catch and finally, with the
\* retryCount the function f closed over
initializeFHESettled(h, f, outcome) ==
    IF outcome = "resolved"
    THEN [h EXCEPT !.instance = FheInstance, !.isInitialized = TRUE, !.isInitializing = FALSE]
    ELSE IF f.retryCount < 2 /\ IncludesNetwork(outcome)
    THEN [h EXCEPT !.retryCount = @ + 1, !.timers = Append(@, f), !.isInitializing = FALSE]
    ELSE [h EXCEPT !.error = outcome, !.retryCount = 0, !.isInitializing = FALSE]

\* the body of the effect, run after a render that saw the state of h
useEffect(h) ==
    IF h.isConnected /\ h.instance = NoInstance /\ ~h.isInitializing
    THEN initializeFHE(h, h.callback)
    ELSE IF ~h.isConnected /\ h.instance # NoInstance
    THEN [h EXCEPT !.instance = NoInstance, !.isInitialized = FALSE, !.error = NoError]
    ELSE h

\* a render whose effect dependencies differ from those of the render before: useCallback
\* keeps or replaces initializeFHE, then the effect runs
Render(h) ==
    LET f == IF h.isConnected # h.rendered.isConnected
             THEN Closure(h.isConnected, h.retryCount)
             ELSE h.callback
    IN useEffect([h EXCEPT !.callback = f, !.rendered = Deps(h)])

DoRender ==
    /\ Deps(hook) # hook.rendered
    /\ hook.attempts < MaxAttempts
    /\ hook' = Render(hook)
    /\ UNCHANGED <<variant, storage, now, steps, lastCall>>

\* a createFhevmInstance promise settles
DoSettle ==
    /\ \E i \in 1..Len(hook.pending), outcome \in Outcomes :
          hook' = initializeFHESettled([hook EXCEPT !.pending = WithoutIndex(@, i)],
                                       hook.pending[i], outcome)
    /\ UNCHANGED <<variant, storage, now, steps, lastCall>>

\* a timer set by the retry branch runs: setTimeout(() => initializeFHE(), 1000)
DoTimer ==
    /\ hook.attempts < MaxAttempts
    /\ \E i \in 1..Len(hook.timers) :
          hook' = initializeFHE([hook EXCEPT !.timers = WithoutIndex(@, i), !.retries = @ + 1],
                                hook.timers[i])
    /\ UNCHANGED <<variant, storage, now, steps, lastCall>>

\* useAccount reports a connected wallet
DoConnect ==
    /\ ~hook.isConnected
    /\ hook.changes < MaxWalletChanges
    /\ hook' = [hook EXCEPT !.isConnected = TRUE, !.changes = @ + 1,
                            !.attempts = 0, !.retries = 0]
    /\ UNCHANGED <<variant, storage, now, steps, lastCall>>

\* useAccount reports that the wallet is gone
DoDisconnect ==
    /\ hook.isConnected
    /\ hook.changes < MaxWalletChanges
    /\ hook' = [hook EXCEPT !.isConnected = FALSE, !.changes = @ + 1,
                            !.attempts = 0, !.retries = 0]
    /\ UNCHANGED <<variant, storage, now, steps, lastCall>>

----------------------------------------------------------------------------
(* The specification *)

\* the state after the constructor has run
Init ==
    /\ variant \in Variants
    /\ owner = Deployer
    /\ locked = FALSE
    /\ shipments = [id \in TrackingIds |-> NoShipment]
    /\ cargoEvents = [id \in TrackingIds |-> <<>>]
    /\ eventCounts = [id \in TrackingIds |-> 0]
    /\ totalShipments = 0
    /\ acl = {}
    /\ now = StartTime
    /\ steps = 0
    /\ lastCall = Call("constructor", Deployer, "", "", "", <<>>)
    /\ hook = HookInit

DoCreateShipment ==
    /\ Step
    /\ \E sender \in Accounts, id \in TrackingIds, origin \in Origins,
          destination \in Destinations, est \in EstimatedDeliveries(now) :
           createShipment(sender, id, origin, destination, est)

\* the arguments after (sender, id, location, description) are drawn only for calls that
\* pass the four requires: a call that fails one of them reverts whatever they are
DoAddCargoEvent ==
    /\ Step
    /\ variant = "contracts"
    /\ \E sender \in Accounts, id \in TrackingIds, location \in Locations,
          description \in Descriptions :
           \E status \in IF addCargoEventErr(sender, id, location, description) = ""
                          THEN ShipmentStatus ELSE {Created} :
               addCargoEvent(sender, id, location, status, description)

DoAddCargoEventEncrypted ==
    /\ Step
    /\ variant = "part_001"
    /\ \E sender \in Accounts, id \in TrackingIds, location \in Locations,
          description \in Descriptions :
           LET passes == addCargoEventErr(sender, id, location, description) = "" IN
           \E status \in IF passes THEN ShipmentStatus ELSE {Created},
              enc \in IF passes THEN EncryptedInputs ELSE {<<ZeroHandle, <<>>>>},
              weightProofOk \in IF passes THEN BOOLEAN ELSE {TRUE},
              proofOk \in IF passes THEN BOOLEAN ELSE {TRUE} :
               addCargoEventEncrypted(sender, id, location, status, description,
                                      enc[1], weightProofOk, enc[2], proofOk)

DoUpdateShipmentStatus ==
    /\ Step
    /\ variant = "contracts"
    /\ \E sender \in Accounts, id \in TrackingIds, newStatus \in ShipmentStatus :
           updateShipmentStatus(sender, id, newStatus)

DoUpdateShipmentStatusEncrypted ==
    /\ Step
    /\ variant = "part_001"
    /\ \E sender \in Accounts, id \in TrackingIds, newStatus \in ShipmentStatus :
           updateShipmentStatusEncrypted(sender, id, newStatus)

DoReconnectWallet ==
    /\ Step
    /\ variant = "contracts"
    /\ \E sender \in Accounts, id \in TrackingIds, newWallet \in Accounts \cup {ZeroAddress} :
           reconnectWallet(sender, id, newWallet)

DoReconnectWalletChecked ==
    /\ Step
    /\ variant = "part_001"
    /\ \E sender \in Accounts, id \in TrackingIds, newWallet \in Accounts \cup {ZeroAddress} :
           reconnectWalletChecked(sender, id, newWallet)

DoEmergencyPause == Step /\ \E sender \in Accounts : emergencyPause(sender)

DoTick == Step /\ \E d \in Deltas : Tick(d)

Next ==
    \/ DoCreateShipment
    \/ DoAddCargoEvent
    \/ DoAddCargoEventEncrypted
    \/ DoUpdateShipmentStatus
    \/ DoUpdateShipmentStatusEncrypted
    \/ DoReconnectWallet
    \/ DoReconnectWalletChecked
    \/ DoEmergencyPause
    \/ DoTick

Spec == Init /\ [][Next]_vars

----------------------------------------------------------------------------
(* Queries (view functions): the result of a call in the current state, as   *)
(* a record with the revert reason, or with err = "" and the returned value  *)

Returned(value) == [err |-> "", value |-> value]

Reverted(err) == [err |-> err]

\* getEncryptedWeight(trackingId, eventIndex) of src/unnamed/part_001; eventIndex counts from 0
getEncryptedWeight(id, eventIndex) ==
    IF ~shipments[id].exists THEN Reverted("Shipment does not exist")
    ELSE IF ~(eventIndex < Len(cargoEvents[id])) THEN Reverted("Event does not exist")
    ELSE Returned(cargoEvents[id][eventIndex + 1].encryptedWeight)

\* getCurrentStatus as a function of the storage it reads: shipments[trackingId] and
\* cargoEvents[trackingId]
getCurrentStatusIn(shipment, events) ==
    IF ~shipment.exists THEN Reverted("Shipment does not exist")
    ELSE Returned(StatusOf(events))

\* getCurrentStatus(trackingId) as a call, with its revert reason
getCurrentStatusCall(id) == getCurrentStatusIn(shipments[id], cargoEvents[id])

getShipment(id) ==
    IF ~shipments[id].exists THEN Reverted("Shipment does not exist")
    ELSE Returned(shipments[id])

\* mutant: getEventCount without its require
getEventCountUnchecked(id) == Returned(eventCounts[id])

\* getEventCount as a function of the storage it reads: shipments[trackingId] and
\* eventCounts[trackingId]
getEventCountIn(shipment, count) ==
    IF ~shipment.exists THEN Reverted("Shipment does not exist")
    ELSE Returned(count)

getEventCount(id) == getEventCountIn(shipments[id], eventCounts[id])

\* the five public fields returned by getCargoEvent and getCargoEventPublic
PublicFields(event) ==
    <<event.eventId, event.timestamp, event.location, event.status, event.description>>

\* getCargoEvent as a function of the storage it reads
getCargoEventIn(shipment, events, eventIndex) ==
    IF ~shipment.exists THEN Reverted("Shipment does not exist")
    ELSE IF ~(eventIndex < Len(events)) THEN Reverted("Event does not exist")
    ELSE Returned(PublicFields(events[eventIndex + 1]))

getCargoEvent(id, eventIndex) == getCargoEventIn(shipments[id], cargoEvents[id], eventIndex)

\* mutant: a public view that hands out the weight handle with the five public fields
getCargoEventPublicInWithWeight(shipment, events, eventIndex) ==
    IF ~shipment.exists THEN Reverted("Shipment does not exist")
    ELSE IF ~(eventIndex < Len(events)) THEN Reverted("Event does not exist")
    ELSE Returned(PublicFields(events[eventIndex + 1])
                      \o <<events[eventIndex + 1].encryptedWeight>>)

\* getCargoEventPublic of src/unnamed/part_001 as a function of the storage it reads
getCargoEventPublicIn(shipment, events, eventIndex) ==
    IF ~shipment.exists THEN Reverted("Shipment does not exist")
    ELSE IF ~(eventIndex < Len(events)) THEN Reverted("Event does not exist")
    ELSE Returned(PublicFields(events[eventIndex + 1]))

\* getCargoEventPublic of src/unnamed/part_001
getCargoEventPublic(id, eventIndex) ==
    getCargoEventPublicIn(shipments[id], cargoEvents[id], eventIndex)

\* getContentsLength of src/unnamed/part_001
getContentsLength(id, eventIndex) ==
    IF ~shipments[id].exists THEN Reverted("Shipment does not exist")
    ELSE IF ~(eventIndex < Len(cargoEvents[id])) THEN Reverted("Event does not exist")
    ELSE Returned(Len(cargoEvents[id][eventIndex + 1].encContentsBytes))

\* getEncryptedContentsByte of src/unnamed/part_001
getEncryptedContentsByte(id, eventIndex, byteIndex) ==
    IF ~shipments[id].exists THEN Reverted("Shipment does not exist")
    ELSE IF ~(eventIndex < Len(cargoEvents[id])) THEN Reverted("Event does not exist")
    ELSE IF ~(byteIndex < Len(cargoEvents[id][eventIndex + 1].encContentsBytes))
         THEN Reverted("Byte index out of bounds")
    ELSE Returned(cargoEvents[id][eventIndex + 1].encContentsBytes[byteIndex + 1])

getShipmentDetails(id) ==
    IF ~shipments[id].exists THEN Reverted("Shipment does not exist")
    ELSE Returned([shipment |-> shipments[id], events |-> cargoEvents[id],
                   eventCount |-> eventCounts[id]])

\* the for loop of getShipmentHistory, from index i on
RECURSIVE HistoryLoop(_, _, _)
HistoryLoop(events, i, history) ==
    IF ~(i < Len(events)) THEN history
    ELSE HistoryLoop(events, i + 1,
                     [locations |-> Append(history.locations, events[i + 1].location),
                      statuses |-> Append(history.statuses, events[i + 1].status),
                      timestamps |-> Append(history.timestamps, events[i + 1].timestamp)])

\* mutant: a history that lists the newest event first
getShipmentHistoryNewestFirst(id) ==
    IF ~shipments[id].exists THEN Reverted("Shipment does not exist")
    ELSE LET events == cargoEvents[id]
             n == Len(events)
         IN Returned([locations |-> [i \in 1..n |-> events[n + 1 - i].location],
                      statuses |-> [i \in 1..n |-> events[n + 1 - i].status],
                      timestamps |-> [i \in 1..n |-> events[n + 1 - i].timestamp]])

\* getShipmentHistory as a function of the storage it reads
getShipmentHistoryIn(shipment, events) ==
    IF ~shipment.exists THEN Reverted("Shipment does not exist")
    ELSE Returned(HistoryLoop(events, 0,
                              [locations |-> <<>>, statuses |-> <<>>, timestamps |-> <<>>]))

getShipmentHistory(id) == getShipmentHistoryIn(shipments[id], cargoEvents[id])

----------------------------------------------------------------------------
(* The encrypted revision from the state in which the deployer has created   *)
(* shipment "CARGO1" and the dwell time has passed                           *)

InitShipped ==
    /\ variant = "part_001"
    /\ owner = Deployer
    /\ locked = FALSE
    /\ shipments = [id \in TrackingIds |->
                       IF id = "CARGO1"
                       THEN [trackingId |-> "CARGO1", origin |-> "Shanghai",
                             destination |-> "LA", createdAt |-> StartTime,
                             estimatedDelivery |-> StartTime + OneYear,
                             creator |-> Deployer, exists |-> TRUE]
                       ELSE NoShipment]
    /\ cargoEvents = [id \in TrackingIds |-> <<>>]
    /\ eventCounts = [id \in TrackingIds |-> 0]
    /\ totalShipments = 1
    /\ acl = {}
    /\ now = StartTime + OneHour
    /\ steps = 0
    /\ lastCall = Call("tick", "", "", OneHour, "", <<>>)
    /\ hook = HookInit

NextEncrypted ==
    \/ DoCreateShipment
    \/ DoAddCargoEventEncrypted
    \/ DoUpdateShipmentStatusEncrypted
    \/ DoReconnectWalletChecked
    \/ DoEmergencyPause
    \/ DoTick

SpecShipped == InitShipped /\ [][NextEncrypted]_vars

----------------------------------------------------------------------------
(* The encrypted revision called by a client that does not truncate the      *)
(* contents: the callers of the tests cut the text at 64 bytes before they   *)
(* encrypt it, the contract takes an encContentsBytes array of any length    *)

\* contents.slice(0, 64) of the test and deployment scripts
MaxContentsLength == 64

\* one handle more than the clients ever send
OversizedContents ==
    [i \in 1..(MaxContentsLength + 1) |-> IF i % 2 = 1 THEN "b1" ELSE "b2"]

DoAddCargoEventOversized ==
    /\ Step
    /\ variant = "part_001"
    /\ \E sender \in Accounts, id \in TrackingIds, location \in Locations,
          description \in Descriptions :
           LET passes == addCargoEventErr(sender, id, location, description) = "" IN
           \E status \in IF passes THEN ShipmentStatus ELSE {Created},
              weightProofOk \in IF passes THEN BOOLEAN ELSE {TRUE},
              proofOk \in IF passes THEN BOOLEAN ELSE {TRUE} :
               addCargoEventEncrypted(sender, id, location, status, description,
                                      "w1", weightProofOk, OversizedContents, proofOk)

NextOversized ==
    \/ DoCreateShipment
    \/ DoAddCargoEventEncrypted
    \/ DoAddCargoEventOversized
    \/ DoUpdateShipmentStatusEncrypted
    \/ DoReconnectWalletChecked
    \/ DoEmergencyPause
    \/ DoTick

SpecOversized == InitShipped /\ [][NextOversized]_vars

----------------------------------------------------------------------------
(* The draft revisions: src/unnamed/part_000 (no lock, no reconnectWallet,   *)
(* createShipment without the one-year bound) and src/unnamed/part_002 (the  *)
(* named file with the lock taken before it is tested). Both hold the same   *)
(* draft of addCargoEvent, written out twice, and of updateShipmentStatus.   *)

\* the require chain of createShipment in src/unnamed/part_000
createShipmentDraftErr(id, estimatedDeliveryTimestamp) ==
    IF shipments[id].exists THEN "Shipment already exists"
    ELSE IF ~(Len(id) >= MIN_TRACKING_ID_LENGTH) THEN "Tracking ID too short"
    ELSE IF ~(estimatedDeliveryTimestamp > now) THEN "Estimated delivery must be in the future"
    ELSE ""

createShipmentDraft(sender, id, origin, destination, est) ==
    LET err == createShipmentDraftErr(id, est) IN
    IF err # "" THEN Revert("createShipment", err)
    ELSE /\ shipments' = [shipments EXCEPT ![id] = NewShipment(sender, id, origin, destination, est)]
         /\ totalShipments' = totalShipments + 1
         /\ lastCall' = Call("createShipment", sender, id, est, "",
                             <<ShipmentCreated(id, sender, origin, destination, est)>>)
         /\ UNCHANGED <<variant, owner, locked, cargoEvents, eventCounts, acl, now>>

\* mutant: the draft of addCargoEvent with the creator require put back
addCargoEventDraftErrCreatorOnly(sender, id, location, description) ==
    IF ~shipments[id].exists THEN "Shipment does not exist"
    ELSE IF ~(shipments[id].creator = sender) THEN "Only shipment creator can add events"
    ELSE ""

\* the one require left in the draft of addCargoEvent
addCargoEventDraftErr(sender, id, location, description) ==
    IF ~shipments[id].exists THEN "Shipment does not exist" ELSE ""

\* cargoEvents[trackingId].push(...) with the increment of eventCounts commented out
PushEventDraft(id, event) ==
    /\ cargoEvents' = [cargoEvents EXCEPT ![id] = Append(@, event)]
    /\ eventCounts' = eventCounts

addCargoEventDraft(sender, id, location, status, description) ==
    LET err == addCargoEventDraftErr(sender, id, location, description) IN
    IF err # "" THEN Revert("addCargoEvent", err)
    ELSE /\ PushEventDraft(id, NewCargoEvent(id, location, status, description))
         /\ lastCall' = Call("addCargoEvent", sender, id, <<location, description>>, "",
                             <<CargoEventAdded(id, eventCounts[id], sender, location, status)>>)
         /\ UNCHANGED <<variant, owner, locked, shipments, totalShipments, acl, now>>

\* the two requires left in the draft of updateShipmentStatus
updateShipmentStatusDraftErr(sender, id, newStatus) ==
    IF ~shipments[id].exists THEN "Shipment does not exist"
    ELSE IF ~(shipments[id].creator = sender) THEN "Only shipment creator can update status"
    ELSE ""

\* the draft of updateShipmentStatus: it appends through the draft of addCargoEvent and
\* logs eventCounts[trackingId] as it stands after the append
updateShipmentStatusDraft(sender, id, newStatus) ==
    LET err == updateShipmentStatusDraftErr(sender, id, newStatus)
        inner == addCargoEventDraftErr(sender, id, "Status Update",
                                       StatusDescription(newStatus))
        oldStatus == getCurrentStatus(id)
    IN
    IF err # "" THEN Revert("updateShipmentStatus", err)
    ELSE IF inner # "" THEN Revert("updateShipmentStatus", inner)
    ELSE /\ PushEventDraft(id, NewCargoEvent(id, "Status Update", newStatus,
                                             StatusDescription(newStatus)))
         /\ lastCall' = Call("updateShipmentStatus", sender, id, newStatus, "",
                <<CargoEventAdded(id, eventCounts[id], sender, "Status Update", newStatus),
                  StatusUpdated(id, eventCounts'[id], sender, oldStatus, newStatus)>>)
         /\ UNCHANGED <<variant, owner, locked, shipments, totalShipments, acl, now>>

\* mutant: the guard in the right order, the test before the assignment
nonReentrantInvertedErrTestFirst == IF ~(~locked) THEN "Reentrant call" ELSE ""

\* modifier nonReentrant of src/unnamed/part_002: locked = true; require(!locked, ...)
nonReentrantInvertedErr ==
    LET lockedAtRequire == TRUE IN
    IF ~(~lockedAtRequire) THEN "Reentrant call" ELSE ""

\* the require chain of reconnectWallet in src/unnamed/part_002, its modifier first
reconnectWalletInvertedErr(sender, id, newWallet) ==
    IF nonReentrantInvertedErr # "" THEN nonReentrantInvertedErr
    ELSE IF ~shipments[id].exists THEN "Shipment does not exist"
    ELSE IF ~(newWallet = sender) THEN "Invalid wallet"
    ELSE ""

\* reconnectWallet of src/unnamed/part_002; a revert also undoes the locked = true of
\* the modifier
reconnectWalletInverted(sender, id, newWallet) ==
    LET err == reconnectWalletInvertedErr(sender, id, newWallet) IN
    IF err # "" THEN Revert("reconnectWallet", err)
    ELSE /\ shipments' = [shipments EXCEPT ![id].creator = ReconnectedCreator(newWallet)]
         /\ locked' = FALSE
         /\ lastCall' = Call("reconnectWallet", sender, id, newWallet, "",
                <<ShipmentCreated(id, newWallet, shipments[id].origin,
                                  shipments[id].destination, shipments[id].estimatedDelivery)>>)
         /\ UNCHANGED <<variant, owner, cargoEvents, eventCounts, totalShipments, acl, now>>

\* the status arguments of the draft of addCargoEvent: the first status and a later one
DraftStatuses == {Created, Arrived}

DoCreateShipmentDraft ==
    /\ Step
    /\ variant = "part_000"
    /\ \E sender \in Accounts, id \in TrackingIds, origin \in Origins,
          destination \in Destinations, est \in EstimatedDeliveries(now) :
           createShipmentDraft(sender, id, origin, destination, est)

DoAddCargoEventDraft ==
    /\ Step
    /\ variant \in {"part_000", "part_002"}
    /\ \E sender \in Accounts, id \in TrackingIds, location \in Locations,
          description \in Descriptions :
           \E status \in IF addCargoEventDraftErr(sender, id, location, description) = ""
                          THEN DraftStatuses ELSE {Created} :
               addCargoEventDraft(sender, id, location, status, description)

DoUpdateShipmentStatusDraft ==
    /\ Step
    /\ variant \in {"part_000", "part_002"}
    /\ \E sender \in Accounts, id \in TrackingIds, newStatus \in ShipmentStatus :
           updateShipmentStatusDraft(sender, id, newStatus)

DoReconnectWalletInverted ==
    /\ Step
    /\ variant = "part_002"
    /\ \E sender \in Accounts, id \in TrackingIds, newWallet \in Accounts \cup {ZeroAddress} :
           reconnectWalletInverted(sender, id, newWallet)

\* src/unnamed/part_000 after its constructor: the contract has no lock, the variable
\* keeps the value false
InitDraft ==
    /\ variant = "part_000"
    /\ owner = Deployer
    /\ locked = FALSE
    /\ shipments = [id \in TrackingIds |-> NoShipment]
    /\ cargoEvents = [id \in TrackingIds |-> <<>>]
    /\ eventCounts = [id \in TrackingIds |-> 0]
    /\ totalShipments = 0
    /\ acl = {}
    /\ now = StartTime
    /\ steps = 0
    /\ lastCall = Call("constructor", Deployer, "", "", "", <<>>)
    /\ hook = HookInit

NextDraft ==
    \/ DoCreateShipmentDraft
    \/ DoAddCargoEventDraft
    \/ DoUpdateShipmentStatusDraft
    \/ DoTick

SpecDraft == InitDraft /\ [][NextDraft]_vars

\* src/unnamed/part_002 after its constructor
InitInverted ==
    /\ variant = "part_002"
    /\ owner = Deployer
    /\ locked = FALSE
    /\ shipments = [id \in TrackingIds |-> NoShipment]
    /\ cargoEvents = [id \in TrackingIds |-> <<>>]
    /\ eventCounts = [id \in TrackingIds |-> 0]
    /\ totalShipments = 0
    /\ acl = {}
    /\ now = StartTime
    /\ steps = 0
    /\ lastCall = Call("constructor", Deployer, "", "", "", <<>>)
    /\ hook = HookInit

NextInverted ==
    \/ DoCreateShipment
    \/ DoAddCargoEventDraft
    \/ DoUpdateShipmentStatusDraft
    \/ DoReconnectWalletInverted
    \/ DoEmergencyPause
    \/ DoTick

SpecInverted == InitInverted /\ [][NextInverted]_vars

----------------------------------------------------------------------------
(* The web client's hook beside a freshly deployed contract *)

InitHook == Init /\ variant = "contracts"

NextHook ==
    \/ DoConnect
    \/ DoDisconnect
    \/ DoRender
    \/ DoSettle
    \/ DoTimer

SpecHook == InitHook /\ [][NextHook]_vars

----------------------------------------------------------------------------
(* Vocabulary of the properties *)

ValidIds == {id \in TrackingIds : Len(id) >= MIN_TRACKING_ID_LENGTH}

Existing == {id \in TrackingIds : shipments[id].exists}

Succeeded(op) == lastCall.op = op /\ lastCall.err = ""

Failed(op, err) == lastCall.op = op /\ lastCall.err = err

\* the four adjacent forward pairs of the lifecycle
Adjacent(a, b) ==
    <<a, b>> \in {<<Created, InTransit>>, <<InTransit, CustomsClearance>>,
                  <<CustomsClearance, Arrived>>, <<Arrived, Delivered>>}

----------------------------------------------------------------------------
(* C1: createShipment succeeds at most once per trackingId.  A successful    *)
(* createShipment is always on an id that had no shipment; a shipment that   *)
(* exists keeps existing; on an id that has a shipment every createShipment, *)
(* whatever its caller and arguments, reverts with "Shipment already         *)
(* exists"; and a reverted createShipment leaves the stored shipments        *)
(* (creator included), the event lists and totalShipments as they were.      *)

C1_AlreadyExists(id) ==
    \A est \in EstimatedDeliveries(now) \cup {now + 1} :
        createShipmentErr(id, est) = "Shipment already exists"

C1_Step ==
    /\ \A id \in Existing : C1_AlreadyExists(id) /\ shipments'[id].exists
    /\ (Succeeded("createShipment"))' =>
          /\ lastCall'.trackingId \notin Existing
          /\ \A id \in Existing : /\ shipments'[id] = shipments[id]
                                  /\ cargoEvents'[id] = cargoEvents[id]
    /\ (lastCall'.op = "createShipment" /\ lastCall'.err # "") =>
          UNCHANGED <<shipments, cargoEvents, eventCounts, totalShipments>>

C1_CreateAtMostOnce == [][C1_Step]_vars

\* a second createShipment on an existing id has been sent and has reverted
C1_Witness == Failed("createShipment", "Shipment already exists")

----------------------------------------------------------------------------
(* C2: in every reachable state and for every trackingId, eventCounts equals *)
(* the length of the event list and the event at index i (from 0) has        *)
(* eventId i, whichever of addCargoEvent and updateShipmentStatus appended.  *)

C2_EventIdsGapless ==
    \A id \in TrackingIds :
        /\ eventCounts[id] = Len(cargoEvents[id])
        /\ \A i \in 1..Len(cargoEvents[id]) : cargoEvents[id][i].eventId = i - 1

\* the encrypted revision holds a list of two events, one appended by addCargoEvent and
\* one by updateShipmentStatus
C2_Witness ==
    /\ variant = "part_001"
    /\ \E id \in TrackingIds :
           /\ Len(cargoEvents[id]) = 2
           /\ \E i, j \in 1..2 : /\ cargoEvents[id][i].location = "Status Update"
                                 /\ cargoEvents[id][j].location = "Port"

----------------------------------------------------------------------------
(* C3: the status read by getCurrentStatus never moves to an earlier stage   *)
(* and never skips a stage.  As stated, for every successful write: after    *)
(* any step the status of an existing shipment is its status before the      *)
(* step or the stage right after it.                                         *)

C3_Step ==
    /\ (Succeeded("updateShipmentStatus"))' =>
          /\ Adjacent(StatusOf(cargoEvents[lastCall'.trackingId]),
                      StatusOf(cargoEvents'[lastCall'.trackingId]))
          /\ StatusOf(cargoEvents'[lastCall'.trackingId]) = lastCall'.arg
          /\ \A id \in TrackingIds \ {lastCall'.trackingId} :
                 cargoEvents'[id] = cargoEvents[id]
    /\ (Succeeded("reconnectWallet"))' => UNCHANGED cargoEvents
    /\ (Succeeded("addCargoEvent"))' =>
          /\ StatusOf(cargoEvents'[lastCall'.trackingId]) = lastCall'.logs[1].status
          /\ \A id \in TrackingIds \ {lastCall'.trackingId} :
                 cargoEvents'[id] = cargoEvents[id]

----------------------------------------------------------------------------
(* C4: with a the current status of a shipment and b any of the five         *)
(* statuses, updateShipmentStatus(id, b) sent by the creator passes its      *)
(* requires only if (a, b) is one of (Created, InTransit), (InTransit,       *)
(* CustomsClearance), (CustomsClearance, Arrived), (Arrived, Delivered); for *)
(* a = b it reverts with "Status already set"; for every other pair,         *)
(* backward or skipping, it reverts with "Invalid status transition"; and an *)
(* updateShipmentStatus that reverted with either message appended no event. *)

C4_Table ==
    \A id \in Existing :
        LET a == getCurrentStatus(id) IN
        \A b \in ShipmentStatus :
            LET err == updateShipmentStatusErr(shipments[id].creator, id, b) IN
            IF a = b THEN err = "Status already set"
            ELSE IF Adjacent(a, b) THEN err \in {"", "Too early for status change"}
            ELSE err = "Invalid status transition"

C4_Step ==
    /\ C4_Table'
    /\ (\/ (Failed("updateShipmentStatus", "Status already set"))'
        \/ (Failed("updateShipmentStatus", "Invalid status transition"))') =>
          UNCHANGED <<cargoEvents, eventCounts>>
    /\ (Succeeded("updateShipmentStatus"))' =>
          Adjacent(getCurrentStatus(lastCall'.trackingId), lastCall'.arg)

C4_TransitionTable == [][C4_Step]_vars

\* a shipment stands at Arrived, where the table has one backward pair, one same pair and
\* one forward pair to decide, and an updateShipmentStatus has been refused as invalid
C4_Witness ==
    /\ Failed("updateShipmentStatus", "Invalid status transition")
    /\ \E id \in Existing : getCurrentStatus(id) = Arrived

----------------------------------------------------------------------------
(* C5: for every existing shipment and every caller other than its creator,  *)
(* addCargoEvent reverts with "Only shipment creator can add events" and     *)
(* updateShipmentStatus with "Only shipment creator can update status",      *)
(* whatever the other arguments; a call that reverted so left the event      *)
(* lists, eventCounts and the capability grants as they were; and whenever   *)
(* an event list changes, exactly one event was appended to it, by a         *)
(* transaction of the account that was the shipment's creator when it was    *)
(* sent.                                                                     *)

C5_Forbidden ==
    \A id \in Existing :
        \A caller \in Accounts \ {shipments[id].creator} :
            /\ \A location \in Locations, description \in Descriptions :
                   addCargoEventErr(caller, id, location, description)
                       = "Only shipment creator can add events"
            /\ \A newStatus \in ShipmentStatus :
                   updateShipmentStatusErr(caller, id, newStatus)
                       = "Only shipment creator can update status"

C5_Step ==
    /\ C5_Forbidden'
    /\ (\/ (Failed("addCargoEvent", "Only shipment creator can add events"))'
        \/ (Failed("updateShipmentStatus", "Only shipment creator can update status"))') =>
          UNCHANGED <<cargoEvents, eventCounts, acl>>
    /\ \A id \in TrackingIds :
          cargoEvents'[id] # cargoEvents[id] =>
              /\ lastCall'.op \in {"addCargoEvent", "updateShipmentStatus"}
              /\ lastCall'.trackingId = id
              /\ lastCall'.caller \in Accounts
              /\ lastCall'.caller = shipments[id].creator
              /\ Len(cargoEvents'[id]) = Len(cargoEvents[id]) + 1
              /\ SubSeq(cargoEvents'[id], 1, Len(cargoEvents[id])) = cargoEvents[id]

C5_OnlyCreatorAppends == [][C5_Step]_vars

\* a shipment holds an event of its creator, and an addCargoEvent of another account
\* has been refused
C5_Witness ==
    /\ Failed("addCargoEvent", "Only shipment creator can add events")
    /\ \E id \in Existing : /\ Len(cargoEvents[id]) > 0
                             /\ shipments[id].creator \in Accounts

----------------------------------------------------------------------------
(* C6: reconnectWallet succeeds only when its caller is the shipment's       *)
(* current creator and the new wallet is neither the zero address nor the    *)
(* caller; and a reconnectWallet that reverted left every creator as it was. *)

C6_Step ==
    /\ (Succeeded("reconnectWallet"))' =>
          /\ lastCall'.caller = shipments[lastCall'.trackingId].creator
          /\ lastCall'.arg # ZeroAddress
          /\ lastCall'.arg # lastCall'.caller
    /\ (lastCall'.op = "reconnectWallet" /\ lastCall'.err # "") =>
          \A id \in TrackingIds : shipments'[id].creator = shipments[id].creator

C6_ReconnectGuards == [][C6_Step]_vars

----------------------------------------------------------------------------
(* C7: a successful reconnectWallet(id, newWallet) stores newWallet as the   *)
(* shipment's creator; and in every state reached the creator of every       *)
(* existing shipment is not the zero address, so that some account's         *)
(* addCargoEvent on it, with a location and a description, passes the        *)
(* requires.                                                                 *)

C7_SomeoneCanAppend ==
    \A id \in Existing :
        /\ shipments[id].creator # ZeroAddress
        /\ \E sender \in Accounts : addCargoEventErr(sender, id, "Port", "Loaded") = ""

C7_Step ==
    /\ (Succeeded("reconnectWallet"))' =>
          shipments'[lastCall'.trackingId].creator = lastCall'.arg
    /\ C7_SomeoneCanAppend'

C7_CreatorNeverNull == [][C7_Step]_vars

----------------------------------------------------------------------------
(* C8: at ledger time now, createShipment(id, origin, destination,           *)
(* estimatedDelivery) passes its requires if and only if no shipment exists  *)
(* for id, id has at least 6 characters and now < estimatedDelivery <= now + *)
(* 365 days: estimatedDelivery = now is refused, estimatedDelivery = now +   *)
(* 365 days is accepted, a 3-character id is refused with "Tracking ID too   *)
(* short", and nothing but its length is asked of the id.  A createShipment  *)
(* that succeeded was sent in a state where all three conditions held.       *)

C8_Accepted(id, estimatedDelivery) ==
    /\ ~shipments[id].exists
    /\ Len(id) >= 6
    /\ now < estimatedDelivery
    /\ estimatedDelivery <= now + 365 * 24 * 3600

C8_Table ==
    \A id \in TrackingIds :
        /\ \A est \in EstimatedDeliveries(now) \cup {now - 1, now + 1} :
               createShipmentErr(id, est) = "" <=> C8_Accepted(id, est)
        /\ (Len(id) = 3 /\ ~shipments[id].exists) =>
               createShipmentErr(id, now + 1) = "Tracking ID too short"
        /\ ~shipments[id].exists =>
               /\ createShipmentErr(id, now) \notin {"", "Shipment already exists"}
               /\ Len(id) >= 6 => createShipmentErr(id, now + 365 * 24 * 3600) = ""

C8_Step ==
    /\ C8_Table'
    /\ (Succeeded("createShipment"))' => C8_Accepted(lastCall'.trackingId, lastCall'.arg)

C8_CreateAcceptance == [][C8_Step]_vars

\* a shipment due exactly 365 days after its creation is stored, and a createShipment
\* has been refused for its short id
C8_Witness ==
    /\ Failed("createShipment", "Tracking ID too short")
    /\ \E id \in Existing :
           shipments[id].estimatedDelivery = shipments[id].createdAt + 365 * 24 * 3600

----------------------------------------------------------------------------
(* C9: a createShipment that succeeded for caller c at time now has stored,  *)
(* under its trackingId, a shipment with creator c, createdAt now, exists    *)
(* true and the trackingId, origin, destination and estimatedDelivery it was *)
(* given; totalShipments is one more than before; the shipment's event list  *)
(* is empty, its eventCounts is 0 and getCurrentStatus returns Created.      *)

C9_Step ==
    (Succeeded("createShipment"))' =>
        LET id == lastCall'.trackingId
            given == lastCall'.logs[1]
        IN /\ lastCall'.caller \in Accounts
           /\ given.origin \in Origins
           /\ given.destination \in Destinations
           /\ shipments'[id] = [trackingId |-> id, origin |-> given.origin,
                                destination |-> given.destination, createdAt |-> now,
                                estimatedDelivery |-> lastCall'.arg,
                                creator |-> lastCall'.caller, exists |-> TRUE]
           /\ now' = now
           /\ totalShipments' = totalShipments + 1
           /\ cargoEvents'[id] = <<>>
           /\ eventCounts'[id] = 0
           /\ StatusOf(cargoEvents'[id]) = Created

C9_CreateEffects == [][C9_Step]_vars

\* the second shipment of the run has been created, by the account that did not deploy
\* the contract and after the clock has moved
C9_Witness ==
    /\ Succeeded("createShipment")
    /\ lastCall.caller # owner
    /\ totalShipments = 2
    /\ shipments[lastCall.trackingId].createdAt > StartTime

----------------------------------------------------------------------------
(* C10: for the creator and an adjacent forward transition,                  *)
(* updateShipmentStatus reverts with "Too early for status change" whenever  *)
(* now < createdAt + 1 hour, appending nothing, and passes every require     *)
(* whenever now >= createdAt + 1 hour: the hour runs from the creation of    *)
(* the shipment, whenever the previous event was appended.                   *)

C10_Gate ==
    \A id \in Existing :
        \A newStatus \in ShipmentStatus :
            (shipments[id].creator \in Accounts /\ Adjacent(getCurrentStatus(id), newStatus)) =>
                LET err == updateShipmentStatusErr(shipments[id].creator, id, newStatus)
                    inner == IF variant = "contracts"
                             THEN addCargoEventErr(shipments[id].creator, id, "Status Update",
                                                   StatusDescription(newStatus))
                             ELSE _addCargoEventInternalErr(id, "Status Update",
                                                            StatusDescription(newStatus))
                IN IF now < shipments[id].createdAt + 3600
                   THEN err = "Too early for status change"
                   ELSE err = "" /\ inner = ""

C10_Step ==
    /\ C10_Gate'
    /\ (Failed("updateShipmentStatus", "Too early for status change"))' =>
          UNCHANGED <<cargoEvents, eventCounts>>
    /\ (Succeeded("updateShipmentStatus"))' =>
          /\ now >= shipments[lastCall'.trackingId].createdAt + 3600
          /\ Len(cargoEvents'[lastCall'.trackingId])
                 = Len(cargoEvents[lastCall'.trackingId]) + 1

C10_GateFromCreation == [][C10_Step]_vars

\* updateShipmentStatus has succeeded less than an hour after the previous event of the
\* shipment
C10_Witness ==
    /\ Succeeded("updateShipmentStatus")
    /\ LET events == cargoEvents[lastCall.trackingId] IN
       /\ Len(events) = 2
       /\ events[2].timestamp < events[1].timestamp + 3600

----------------------------------------------------------------------------
(* C11: a createShipment, addCargoEvent, updateShipmentStatus or             *)
(* reconnectWallet that fails a validation, the proof verification of        *)
(* addCargoEvent after the increment of eventCounts included, leaves the     *)
(* whole state as it was before the call: shipments, event lists,            *)
(* eventCounts, totalShipments, the lock flag and the capability grants are  *)
(* unchanged and the call has emitted no notification.                       *)

C11_Step ==
    lastCall'.err # "" =>
        /\ lastCall'.op \in {"createShipment", "addCargoEvent", "updateShipmentStatus",
                              "reconnectWallet"}
        /\ shipments' = shipments
        /\ cargoEvents' = cargoEvents
        /\ eventCounts' = eventCounts
        /\ totalShipments' = totalShipments
        /\ locked' = locked
        /\ acl' = acl
        /\ owner' = owner
        /\ lastCall'.logs = <<>>

C11_FailureIsAtomic == [][C11_Step]_vars

\* an addCargoEvent of the creator has passed the four requires and has been reverted by
\* the verification of its input proof, on a shipment that already holds an event
C11_Witness ==
    /\ Failed("addCargoEvent", "ProofVerificationError")
    /\ \E id \in Existing : Len(cargoEvents[id]) > 0

----------------------------------------------------------------------------
(* C12: for every existing shipment getCurrentStatus returns Created while   *)
(* the event list is empty and otherwise the status field of the event       *)
(* appended last, whether addCargoEvent or updateShipmentStatus appended it; *)
(* right after a successful addCargoEvent with status s it returns s.        *)

C12_Step ==
    \A id \in TrackingIds :
        shipments'[id].exists =>
            LET n == Len(cargoEvents'[id])
                mine == lastCall'.err = "" /\ lastCall'.trackingId = id
            IN /\ n = 0 => getCurrentStatus(id)' = Created
               /\ n > 0 => getCurrentStatus(id)' = cargoEvents'[id][n].status
               /\ (mine /\ lastCall'.op = "createShipment") => getCurrentStatus(id)' = Created
               /\ (mine /\ lastCall'.op = "addCargoEvent") =>
                      /\ n = Len(cargoEvents[id]) + 1
                      /\ getCurrentStatus(id)' = lastCall'.logs[1].status
               /\ (mine /\ lastCall'.op = "updateShipmentStatus") =>
                      /\ n = Len(cargoEvents[id]) + 1
                      /\ getCurrentStatus(id)' = lastCall'.arg

C12_StatusIsLastEvent == [][C12_Step]_vars

\* an addCargoEvent has been appended after an event of another status
C12_Witness ==
    /\ Succeeded("addCargoEvent")
    /\ LET events == cargoEvents[lastCall.trackingId] IN
       /\ Len(events) = 2
       /\ events[1].status # events[2].status
       /\ getCurrentStatus(lastCall.trackingId) = events[2].status

----------------------------------------------------------------------------
(* C13: when updateShipmentStatus appends an event, which comes without     *)
(* fresh weight ciphertext, to a shipment that already has an event, the new *)
(* event's encryptedWeight is the handle of event 0, not that of the latest  *)
(* event, and the call imports nothing and grants no capability; so for      *)
(* every event k appended that way getEncryptedWeight(id, k) equals          *)
(* getEncryptedWeight(id, 0).  (In the model the location "Status Update"    *)
(* marks the events appended by updateShipmentStatus.)                       *)

C13_Appended ==
    /\ \A id \in TrackingIds :
          (Succeeded("updateShipmentStatus") /\ lastCall.trackingId = id)' =>
              /\ acl' = acl
              /\ \A n \in {Len(cargoEvents[id])} \ {0} :
                     /\ getEncryptedWeight(id, n)'.err = ""
                     /\ getEncryptedWeight(id, n)'.value = cargoEvents[id][1].encryptedWeight
    /\ \A id \in TrackingIds :
          \A k \in 1..(Len(cargoEvents'[id]) - 1) :
              cargoEvents'[id][k + 1].location = "Status Update" =>
                  getEncryptedWeight(id, k)' = getEncryptedWeight(id, 0)'

C13_Step == variant = "part_001" => C13_Appended

C13_WeightReusedFromFirstEvent == [][C13_Step]_vars

\* two addCargoEvent calls have imported different weights, and updateShipmentStatus has
\* then appended a third event
C13_Witness ==
    /\ Succeeded("updateShipmentStatus")
    /\ LET events == cargoEvents[lastCall.trackingId] IN
       /\ Len(events) = 3
       /\ events[1].encryptedWeight # events[2].encryptedWeight
       /\ events[3].encryptedWeight = events[1].encryptedWeight

----------------------------------------------------------------------------
(* C14: the decrypt capabilities are additive only: a grant (handle, holder) *)
(* that exists before a step exists after it, whichever of createShipment,   *)
(* addCargoEvent, updateShipmentStatus, reconnectWallet and emergencyPause   *)
(* the step is, and whether it succeeded or reverted.                        *)

C14_GrantsOnlyAdded == [][acl \subseteq acl']_vars

\* a shipment whose creator holds capabilities has been handed to another wallet
C14_Witness ==
    /\ Succeeded("reconnectWallet")
    /\ \E g \in acl : g[2] = lastCall.caller
    /\ shipments[lastCall.trackingId].creator # lastCall.caller

----------------------------------------------------------------------------
(* C15: after a successful addCargoEvent that carries ciphertext, the        *)
(* contract itself and the caller each hold a decrypt capability for the     *)
(* weight handle of the stored event and for each of its content-byte        *)
(* handles, and every capability the call has added is held by one of these  *)
(* two, for one of these handles.                                            *)

C15_Granted ==
    \A id \in TrackingIds :
        (Succeeded("addCargoEvent") /\ lastCall.trackingId = id)' =>
            LET event == cargoEvents'[id][Len(cargoEvents'[id])]
                handles == {event.encryptedWeight}
                               \cup {event.encContentsBytes[i] :
                                        i \in 1..Len(event.encContentsBytes)}
                holders == {This, lastCall'.caller}
            IN /\ \A h \in handles, u \in holders : <<h, u>> \in acl'
               /\ \A g \in acl' \ acl : g[1] \in handles /\ g[2] \in holders
               /\ lastCall'.caller \in Accounts

C15_Step == variant = "part_001" => C15_Granted

C15_StoreAndSubmitterCanDecrypt == [][C15_Step]_vars

\* the account that did not deploy the contract has added an event with a weight and two
\* content bytes
C15_Witness ==
    /\ variant = "part_001"
    /\ Succeeded("addCargoEvent")
    /\ lastCall.caller # owner
    /\ LET events == cargoEvents[lastCall.trackingId] IN
       Len(events[Len(events)].encContentsBytes) = 2

----------------------------------------------------------------------------
(* C16: once a shipment is created its trackingId, origin, destination,      *)
(* createdAt and estimatedDelivery never change and its exists flag stays    *)
(* true, whatever the operation; only its creator field can change, and only *)
(* in a successful reconnectWallet on that shipment.                         *)

C16_Step ==
    \A id \in Existing :
        /\ shipments'[id].exists
        /\ shipments'[id].trackingId = shipments[id].trackingId
        /\ shipments'[id].origin = shipments[id].origin
        /\ shipments'[id].destination = shipments[id].destination
        /\ shipments'[id].createdAt = shipments[id].createdAt
        /\ shipments'[id].estimatedDelivery = shipments[id].estimatedDelivery
        /\ shipments'[id].creator # shipments[id].creator =>
               (Succeeded("reconnectWallet") /\ lastCall.trackingId = id)'

C16_ShipmentFieldsFrozen == [][C16_Step]_vars

\* one of two shipments has been through a reconnectWallet after the clock has moved
C16_Witness ==
    /\ Succeeded("reconnectWallet")
    /\ totalShipments = 2
    /\ now > shipments[lastCall.trackingId].createdAt

----------------------------------------------------------------------------
(* C17: each event list is append-only: an event stored at index i keeps     *)
(* all its fields (eventId, timestamp, location, status, description,        *)
(* ciphertext handles) in every later state, no event is removed and the     *)
(* length of the list never decreases.                                       *)

C17_Step ==
    \A id \in TrackingIds :
        /\ Len(cargoEvents'[id]) >= Len(cargoEvents[id])
        /\ \A i \in 1..Len(cargoEvents[id]) : cargoEvents'[id][i] = cargoEvents[id][i]

C17_EventsAppendOnly == [][C17_Step]_vars

\* a list holds an event of addCargoEvent under a later event of updateShipmentStatus
C17_Witness ==
    \E id \in Existing :
        /\ Len(cargoEvents[id]) = 2
        /\ cargoEvents[id][1].location = "Port"
        /\ cargoEvents[id][2].location = "Status Update"
        /\ cargoEvents[id][1].status # cargoEvents[id][2].status

----------------------------------------------------------------------------
(* C18: addCargoEvent succeeds if and only if the shipment exists, the       *)
(* caller is its creator, and location and description are both non-empty;   *)
(* the failures are reported in the order "Shipment does not exist", "Only   *)
(* shipment creator can add events", "Location cannot be empty",             *)
(* "Description cannot be empty", so that a non-creator with an empty        *)
(* location gets the creator message.                                        *)

\* the order in which the four conditions are reported on the requires of addCargoEvent
C18_Precedence ==
    \A sender \in Accounts, id \in TrackingIds, location \in Locations,
       description \in Descriptions :
        addCargoEventErr(sender, id, location, description) =
            CASE ~shipments[id].exists -> "Shipment does not exist"
              [] shipments[id].exists /\ shipments[id].creator # sender
                   -> "Only shipment creator can add events"
              [] shipments[id].exists /\ shipments[id].creator = sender /\ location = ""
                   -> "Location cannot be empty"
              [] shipments[id].exists /\ shipments[id].creator = sender /\ location # ""
                      /\ description = ""
                   -> "Description cannot be empty"
              [] OTHER -> ""

\* a successful addCargoEvent was sent with the four conditions true
C18_SuccessOnlyIf ==
    \A id \in TrackingIds :
        (Succeeded("addCargoEvent") /\ lastCall.trackingId = id)' =>
            /\ shipments[id].exists
            /\ shipments[id].creator = lastCall'.caller
            /\ lastCall'.arg[1] # ""
            /\ lastCall'.arg[2] # ""

C18_FourReasons ==
    {"Shipment does not exist", "Only shipment creator can add events",
     "Location cannot be empty", "Description cannot be empty"}

\* as stated: the four conditions are all that addCargoEvent asks, so that it fails for
\* one of the four reasons or not at all
C18_AsStatedStep ==
    /\ C18_Precedence'
    /\ C18_SuccessOnlyIf
    /\ (lastCall'.op = "addCargoEvent" /\ lastCall'.err # "") =>
          lastCall'.err \in C18_FourReasons

C18_FourConditionsDecide == [][C18_AsStatedStep]_vars

(* C18, as the code has it: the four requires are reported in that order and *)
(* a successful addCargoEvent has passed all four; in the revision without   *)
(* ciphertext they are all that is asked; in the revision that takes         *)
(* ciphertext a call that passes them is still reverted when the input proof *)
(* of the weight or of the contents does not verify, and that is its only    *)
(* other failure.                                                            *)

C18_Step ==
    /\ C18_Precedence'
    /\ C18_SuccessOnlyIf
    /\ (lastCall'.op = "addCargoEvent" /\ lastCall'.err # "") =>
          \/ lastCall'.err \in C18_FourReasons
          \/ variant = "part_001" /\ lastCall'.err = "ProofVerificationError"

C18_RequiresInOrder == [][C18_Step]_vars

\* a shipment has a creator and the other account is a stranger to it, so that the table
\* has every one of its five rows to decide, and an addCargoEvent of the creator has been
\* refused for the last of the four reasons
C18_Witness ==
    /\ Failed("addCargoEvent", "Description cannot be empty")
    /\ \E id \in Existing : shipments[id].creator \in Accounts
    /\ \E id \in TrackingIds : ~shipments[id].exists

----------------------------------------------------------------------------
(* C19: every query reverts with "Shipment does not exist" for an id that    *)
(* has no shipment; for an existing shipment getCargoEvent,                  *)
(* getCargoEventPublic and getEncryptedWeight revert exactly when the index  *)
(* is at or beyond eventCounts, and getEncryptedContentsByte on a stored     *)
(* event reverts exactly when the byte index is at or beyond the length of   *)
(* the event's contents; the other queries return.  The queries are          *)
(* functions of the state: asking one is no step.  The four queries about    *)
(* ciphertext exist in the encrypted revision only.                          *)

C19_NotFound(id) ==
    /\ getShipment(id).err = "Shipment does not exist"
    /\ getEventCount(id).err = "Shipment does not exist"
    /\ getCurrentStatusCall(id).err = "Shipment does not exist"
    /\ getCurrentStatus(id) = "revert"
    /\ getShipmentDetails(id).err = "Shipment does not exist"
    /\ getShipmentHistory(id).err = "Shipment does not exist"
    /\ \A index \in 0..1 :
          /\ getCargoEvent(id, index).err = "Shipment does not exist"
          /\ variant = "part_001" =>
                /\ getCargoEventPublic(id, index).err = "Shipment does not exist"
                /\ getEncryptedWeight(id, index).err = "Shipment does not exist"
                /\ getContentsLength(id, index).err = "Shipment does not exist"
                /\ \A byteIndex \in 0..1 :
                      getEncryptedContentsByte(id, index, byteIndex).err
                          = "Shipment does not exist"

C19_Found(id) ==
    /\ getShipment(id).err = ""
    /\ getEventCount(id).err = ""
    /\ getCurrentStatusCall(id).err = ""
    /\ getShipmentDetails(id).err = ""
    /\ getShipmentHistory(id).err = ""
    /\ \A index \in 0..(eventCounts[id] + 1) :
          LET beyond == index >= eventCounts[id]
              expected == IF beyond THEN "Event does not exist" ELSE ""
          IN /\ getCargoEvent(id, index).err = expected
             /\ variant = "part_001" =>
                   /\ getCargoEventPublic(id, index).err = expected
                   /\ getEncryptedWeight(id, index).err = expected
                   /\ getContentsLength(id, index).err = expected
                   /\ ~beyond =>
                         \A byteIndex \in 0..3 :
                             getEncryptedContentsByte(id, index, byteIndex).err =
                                 IF byteIndex >= getContentsLength(id, index).value
                                 THEN "Byte index out of bounds" ELSE ""

C19_QueriesGuarded ==
    \A id \in TrackingIds : IF shipments[id].exists THEN C19_Found(id) ELSE C19_NotFound(id)

\* the encrypted revision holds a shipment with an event without contents and an event
\* with two content bytes, next to ids that have no shipment
C19_Witness ==
    /\ variant = "part_001"
    /\ \E id \in TrackingIds : ~shipments[id].exists
    /\ \E id \in Existing :
           /\ eventCounts[id] = 2
           /\ \E i, j \in 0..1 : /\ getContentsLength(id, i).value = 0
                                  /\ getContentsLength(id, j).value = 2

----------------------------------------------------------------------------
(* C20: for an existing shipment with n stored events getShipmentHistory     *)
(* returns three sequences of length n whose i-th entries are the location,  *)
(* the status and the timestamp of event i in append order, and              *)
(* getShipmentDetails returns the stored shipment, the whole event list in   *)
(* append order and an eventCount equal to the length of that list.          *)

C20_HistoryAndDetails ==
    \A id \in Existing :
        LET n == Len(cargoEvents[id])
            history == getShipmentHistory(id).value
            details == getShipmentDetails(id).value
        IN /\ Len(history.locations) = n
           /\ Len(history.statuses) = n
           /\ Len(history.timestamps) = n
           /\ \A i \in 1..n :
                 /\ cargoEvents[id][i].eventId = i - 1
                 /\ history.locations[i] = cargoEvents[id][i].location
                 /\ history.statuses[i] = cargoEvents[id][i].status
                 /\ history.timestamps[i] = cargoEvents[id][i].timestamp
           /\ \A i \in 1..(n - 1) : history.timestamps[i] <= history.timestamps[i + 1]
           /\ details.shipment = shipments[id]
           /\ details.events = cargoEvents[id]
           /\ details.eventCount = Len(details.events)

\* a shipment holds two events that differ in location, status and timestamp
C20_Witness ==
    \E id \in Existing :
        /\ Len(cargoEvents[id]) = 2
        /\ cargoEvents[id][1].location # cargoEvents[id][2].location
        /\ cargoEvents[id][1].status # cargoEvents[id][2].status
        /\ cargoEvents[id][1].timestamp # cargoEvents[id][2].timestamp

----------------------------------------------------------------------------
(* C21: addCargoEvent by the creator with an empty sequence of encrypted     *)
(* contents is rejected with "Contents cannot be empty": no step of the      *)
(* encrypted revision is a successful addCargoEvent that appends an event    *)
(* with no content bytes and raises eventCounts.                             *)

C21_EmptyContentsRejected ==
    [][\A id \in TrackingIds :
          ~ /\ variant = "part_001"
            /\ (Succeeded("addCargoEvent") /\ lastCall.trackingId = id)'
            /\ Len(cargoEvents'[id]) = Len(cargoEvents[id]) + 1
            /\ eventCounts'[id] = eventCounts[id] + 1
            /\ cargoEvents'[id][Len(cargoEvents'[id])].encContentsBytes = <<>>]_vars

----------------------------------------------------------------------------
(* C22: the encrypted contents of every stored event hold at most 64         *)
(* handles, whatever number of handles addCargoEvent was given.              *)

C22_ContentsBounded ==
    \A id \in TrackingIds :
        \A i \in 1..Len(cargoEvents[id]) :
            Len(cargoEvents[id][i].encContentsBytes) <= MaxContentsLength

----------------------------------------------------------------------------
(* C23: after a successful addCargoEvent of the encrypted revision that was  *)
(* given a weight handle and k content handles, the getters of the appended  *)
(* event return that data: getContentsLength is k, getEncryptedContentsByte  *)
(* at j is the handle admitted for the j-th handle supplied, for every       *)
(* j < k, and getEncryptedWeight is the handle admitted for the weight.      *)

C23_Step ==
    \A id \in TrackingIds :
        \A n \in {Len(cargoEvents[id])} :
            (variant = "part_001" /\ (Succeeded("addCargoEvent") /\ lastCall.trackingId = id)')
            => LET encWeight == lastCall'.arg[3]
                   encContentsBytes == lastCall'.arg[4]
                   k == Len(encContentsBytes)
               IN /\ getContentsLength(id, n)' = Returned(k)
                  /\ \A j \in 0..(k - 1) :
                        getEncryptedContentsByte(id, n, j)'
                            = Returned(fromExternal(encContentsBytes[j + 1]))
                  /\ getEncryptedWeight(id, n)' = Returned(fromExternal(encWeight))

C23_GettersReturnWhatWasStored == [][C23_Step]_vars

\* an addCargoEvent that supplied two different content handles has just succeeded
C23_Witness ==
    /\ variant = "part_001"
    /\ Succeeded("addCargoEvent")
    /\ Len(lastCall.arg[4]) = 2
    /\ lastCall.arg[4][1] # lastCall.arg[4][2]
    /\ getContentsLength(lastCall.trackingId, eventCounts[lastCall.trackingId] - 1) = Returned(2)

----------------------------------------------------------------------------
(* C24: a shipment-created notification is emitted only by a successful      *)
(* createShipment: every step that logs one is a createShipment that raises  *)
(* totalShipments by one and names the caller as creator, so their number    *)
(* equals totalShipments; a successful reconnectWallet logs none.            *)

C24_ShipmentCreatedOnlyByCreate ==
    [][\A i \in 1..Len(lastCall'.logs) :
          lastCall'.logs[i].name = "ShipmentCreated"
          => /\ lastCall'.op = "createShipment"
             /\ lastCall'.logs[i].creator = lastCall'.caller
             /\ totalShipments' = totalShipments + 1]_vars

----------------------------------------------------------------------------
(* C25: every successful append logs exactly one CargoEventAdded whose       *)
(* trackingId, eventId, caller, location and status are those of the event   *)
(* just stored; a successful updateShipmentStatus logs in addition exactly   *)
(* one StatusUpdated whose eventId is the index of the appended event,       *)
(* oldStatus the status before the call and newStatus the one requested; the *)
(* eventId logged is the number of events the shipment held before, so per   *)
(* shipment the CargoEventAdded stream counts 0, 1, 2, ...                   *)

C25_Logged(name) == {i \in 1..Len(lastCall'.logs) : lastCall'.logs[i].name = name}

C25_Step ==
    \A id \in TrackingIds :
        LET n == Len(cargoEvents[id])
            appended == Len(cargoEvents'[id]) = n + 1
            stored == cargoEvents'[id][n + 1]
            added == C25_Logged("CargoEventAdded")
            updated == C25_Logged("StatusUpdated")
        IN /\ (appended /\ lastCall'.trackingId = id)
              => /\ Cardinality(added) = 1
                 /\ \A i \in added :
                       /\ lastCall'.logs[i].trackingId = stored.trackingId
                       /\ lastCall'.logs[i].trackingId = id
                       /\ lastCall'.logs[i].eventId = stored.eventId
                       /\ lastCall'.logs[i].eventId = n
                       /\ lastCall'.logs[i].creator = lastCall'.caller
                       /\ lastCall'.logs[i].location = stored.location
                       /\ lastCall'.logs[i].status = stored.status
                 /\ IF lastCall'.op = "updateShipmentStatus"
                    THEN /\ Cardinality(updated) = 1
                         /\ \A i \in updated :
                               /\ lastCall'.logs[i].trackingId = id
                               /\ lastCall'.logs[i].eventId = n
                               /\ lastCall'.logs[i].creator = lastCall'.caller
                               /\ lastCall'.logs[i].oldStatus = StatusOf(cargoEvents[id])
                               /\ lastCall'.logs[i].newStatus = lastCall'.arg
                               /\ lastCall'.logs[i].newStatus = stored.status
                    ELSE updated = {}
           /\ appended => lastCall'.trackingId = id
           /\ (\A other \in TrackingIds : Len(cargoEvents'[other]) = Len(cargoEvents[other]))
              => (C25_Logged("CargoEventAdded") = {} /\ C25_Logged("StatusUpdated") = {})

C25_AppendsAreLogged == [][C25_Step]_vars

\* an updateShipmentStatus has appended the second event of a shipment and logged it
\* with eventId 1
C25_Witness ==
    /\ Succeeded("updateShipmentStatus")
    /\ Len(cargoEvents[lastCall.trackingId]) = 2
    /\ Len(lastCall.logs) = 2
    /\ lastCall.logs[1].name = "CargoEventAdded"
    /\ lastCall.logs[2].name = "StatusUpdated"
    /\ lastCall.logs[2].eventId = 1

----------------------------------------------------------------------------
(* C26: the public queries do not depend on the ciphertext: in any storage   *)
(* that differs from a reachable one only in the handles kept in events      *)
(* (encryptedWeight, encContentsBytes), getCargoEventPublic, getCargoEvent,  *)
(* getShipmentHistory, getCurrentStatus and getEventCount return what they   *)
(* return in the reachable one.                                              *)

\* other ciphertext for an event: no ciphertext at all, or handles no client input holds
C26_Ciphertexts == {<<ZeroHandle, <<>>>>, <<"w2", <<"b2", "b1", "b1">>>>}

C26_Recipher(event, enc) ==
    [event EXCEPT !.encryptedWeight = enc[1], !.encContentsBytes = enc[2]]

\* the event lists equal to events but for the handles of one event, or of all of them
C26_Twins(events) ==
    {[i \in 1..Len(events) |-> IF k = 0 \/ k = i THEN C26_Recipher(events[i], enc)
                               ELSE events[i]] :
        k \in 0..Len(events), enc \in C26_Ciphertexts}

C26_PublicViewIgnoresCiphertext ==
    variant = "part_001"
    => \A id \in TrackingIds :
          \A twin \in C26_Twins(cargoEvents[id]) :
              /\ \A eventIndex \in 0..Len(twin) :
                    /\ getCargoEventPublicIn(shipments[id], twin, eventIndex)
                           = getCargoEventPublic(id, eventIndex)
                    /\ getCargoEventIn(shipments[id], twin, eventIndex)
                           = getCargoEvent(id, eventIndex)
              /\ getShipmentHistoryIn(shipments[id], twin) = getShipmentHistory(id)
              /\ getCurrentStatusIn(shipments[id], twin) = getCurrentStatusCall(id)
              /\ getEventCountIn(shipments[id], eventCounts[id]) = getEventCount(id)

\* a shipment holds two events with different weight handles, and its event list has a
\* twin with other handles
C26_Witness ==
    /\ variant = "part_001"
    /\ \E id \in Existing :
          /\ Len(cargoEvents[id]) = 2
          /\ cargoEvents[id][1].encryptedWeight # cargoEvents[id][2].encryptedWeight
          /\ cargoEvents[id][2].encContentsBytes # <<>>
          /\ \E twin \in C26_Twins(cargoEvents[id]) :
                /\ twin # cargoEvents[id]
                /\ getCargoEventPublicIn(shipments[id], twin, 1).err = ""

----------------------------------------------------------------------------
(* C27: a successful updateShipmentStatus(id, s) appends exactly one event,  *)
(* with status s and location "Status Update", raises eventCounts[id] by     *)
(* one and makes getCurrentStatus(id) return s; a shipment whose events all  *)
(* come from updateShipmentStatus walks InTransit, CustomsClearance,         *)
(* Arrived, Delivered, so it is Delivered after exactly four successful      *)
(* calls; and while a shipment is Delivered no updateShipmentStatus on it    *)
(* succeeds, whoever calls and whatever status is asked for.                 *)

C27_Path == <<InTransit, CustomsClearance, Arrived, Delivered>>

C27_OnlyStatusUpdates(events) ==
    \A i \in 1..Len(events) : events[i].location = "Status Update"

C27_Step ==
    /\ (Succeeded("updateShipmentStatus"))'
       => \A id \in {lastCall'.trackingId} :
             /\ Len(cargoEvents'[id]) = Len(cargoEvents[id]) + 1
             /\ SubSeq(cargoEvents'[id], 1, Len(cargoEvents[id])) = cargoEvents[id]
             /\ cargoEvents'[id][Len(cargoEvents'[id])].status = lastCall'.arg
             /\ cargoEvents'[id][Len(cargoEvents'[id])].location = "Status Update"
             /\ eventCounts'[id] = eventCounts[id] + 1
             /\ getCurrentStatusIn(shipments'[id], cargoEvents'[id]) = Returned(lastCall'.arg)
             /\ StatusOf(cargoEvents[id]) # Delivered
             /\ \A other \in TrackingIds \ {id} : cargoEvents'[other] = cargoEvents[other]
    /\ \A id \in {i \in TrackingIds : cargoEvents'[i] # cargoEvents[i]} :
          C27_OnlyStatusUpdates(cargoEvents'[id])
          => /\ Len(cargoEvents'[id]) <= 4
             /\ \A i \in 1..Len(cargoEvents'[id]) : cargoEvents'[id][i].status = C27_Path[i]
             /\ (StatusOf(cargoEvents'[id]) = Delivered) <=> (Len(cargoEvents'[id]) = 4)
    /\ \A id \in {i \in TrackingIds : StatusOf(cargoEvents'[i]) = Delivered} :
          \A sender \in Accounts \cup {ZeroAddress}, newStatus \in ShipmentStatus :
              updateShipmentStatusErr(sender, id, newStatus)' # ""

C27_UpdateWalksToDelivered == [][C27_Step]_vars

\* the fourth updateShipmentStatus on a shipment with no other events has just
\* succeeded and the shipment is Delivered
C27_Witness ==
    /\ Succeeded("updateShipmentStatus")
    /\ lastCall.arg = Delivered
    /\ Len(cargoEvents[lastCall.trackingId]) = 4
    /\ C27_OnlyStatusUpdates(cargoEvents[lastCall.trackingId])
    /\ getCurrentStatusCall(lastCall.trackingId) = Returned(Delivered)

----------------------------------------------------------------------------
(* C28: the dwell gate is measured from createdAt only: the clock never goes *)
(* back and createdAt never changes, so from the moment now >= createdAt +   *)
(* 1 hour no updateShipmentStatus on that shipment is refused with "Too      *)
(* early for status change" again; nothing is measured between successive    *)
(* transitions: once the gate is open the creator's next adjacent transition *)
(* is accepted whatever the timestamp of the events before, so all four can  *)
(* succeed at one ledger timestamp.                                          *)

C28_Open(id) == shipments[id].exists /\ now >= shipments[id].createdAt + OneHour

C28_Next(status) ==
    IF status = Created THEN InTransit
    ELSE IF status = InTransit THEN CustomsClearance
    ELSE IF status = CustomsClearance THEN Arrived
    ELSE Delivered

\* with the gate open nothing is refused as too early, and the creator's next adjacent
\* transition is accepted
C28_Gate(id) ==
    C28_Open(id)
    => /\ \A sender \in Accounts \cup {ZeroAddress}, newStatus \in ShipmentStatus :
             updateShipmentStatusErr(sender, id, newStatus) # "Too early for status change"
       /\ StatusOf(cargoEvents[id]) # Delivered
          => updateShipmentStatusErr(shipments[id].creator, id,
                                     C28_Next(StatusOf(cargoEvents[id]))) = ""

\* the steps that change what the require chain of updateShipmentStatus reads for id
C28_Touched(id) ==
    \/ shipments'[id] # shipments[id]
    \/ cargoEvents'[id] # cargoEvents[id]
    \/ now' # now

C28_Step ==
    /\ now' >= now
    /\ \A id \in TrackingIds :
          /\ C28_Open(id) => C28_Open(id)'
          /\ steps = 0 => C28_Gate(id)
          /\ C28_Touched(id) => C28_Gate(id)'
    /\ (Failed("updateShipmentStatus", "Too early for status change"))'
       => \E id \in Existing : ~C28_Open(id)

C28_GateOpensOnce == [][C28_Step]_vars

\* four status updates, all at the timestamp at which the gate opened
C28_Witness ==
    \E id \in Existing :
        /\ Len(cargoEvents[id]) = 4
        /\ StatusOf(cargoEvents[id]) = Delivered
        /\ \A i \in 1..4 :
              /\ cargoEvents[id][i].location = "Status Update"
              /\ cargoEvents[id][i].timestamp = shipments[id].createdAt + OneHour
        /\ now = shipments[id].createdAt + OneHour

----------------------------------------------------------------------------
(* C29: updateShipmentStatus reports exactly one error, chosen by a fixed    *)
(* precedence: missing shipment, then caller not the creator, then "Status   *)
(* already set", then "Invalid status transition", then "Too early for       *)
(* status change". Before createdAt + 1 hour a no-op or invalid transition   *)
(* is therefore reported as such and never as too early, and a too-early     *)
(* rejection is only ever given for one of the four adjacent pairs.          *)

C29_Precedence(sender, id, newStatus) ==
    CASE ~shipments[id].exists -> "Shipment does not exist"
      [] shipments[id].exists /\ shipments[id].creator # sender
            -> "Only shipment creator can update status"
      [] shipments[id].exists /\ shipments[id].creator = sender
         /\ StatusOf(cargoEvents[id]) = newStatus
            -> "Status already set"
      [] shipments[id].exists /\ shipments[id].creator = sender
         /\ StatusOf(cargoEvents[id]) # newStatus
         /\ ~Adjacent(StatusOf(cargoEvents[id]), newStatus)
            -> "Invalid status transition"
      [] shipments[id].exists /\ shipments[id].creator = sender
         /\ Adjacent(StatusOf(cargoEvents[id]), newStatus)
         /\ now < shipments[id].createdAt + OneHour
            -> "Too early for status change"
      [] OTHER -> ""

C29_ErrorPrecedence ==
    /\ \A sender \in Accounts \cup {ZeroAddress}, id \in TrackingIds,
          newStatus \in ShipmentStatus :
           \A err \in {updateShipmentStatusErr(sender, id, newStatus)} :
               /\ err = C29_Precedence(sender, id, newStatus)
               /\ err = "Too early for status change"
                  => Adjacent(StatusOf(cargoEvents[id]), newStatus)
               /\ (shipments[id].exists /\ shipments[id].creator = sender
                   /\ now < shipments[id].createdAt + OneHour
                   /\ ~Adjacent(StatusOf(cargoEvents[id]), newStatus))
                  => err \in {"Status already set", "Invalid status transition"}
    \* a refused call leaves the storage as it was, so its error is that of the require
    \* chain in the present state
    /\ (lastCall.op = "updateShipmentStatus" /\ lastCall.err # "")
       => \E sender \in Accounts, id \in TrackingIds, newStatus \in ShipmentStatus :
             lastCall.err = updateShipmentStatusErr(sender, id, newStatus)

\* before the dwell time has passed, the creator has just been refused a transition that
\* is not in the table, and asking for the current status would be refused as a no-op
C29_Witness ==
    /\ Failed("updateShipmentStatus", "Invalid status transition")
    /\ \E id \in Existing :
          /\ totalShipments = 1
          /\ now < shipments[id].createdAt + OneHour
          /\ updateShipmentStatusErr(shipments[id].creator, id, StatusOf(cargoEvents[id]))
                 = "Status already set"
          /\ updateShipmentStatusErr(shipments[id].creator, id, Arrived)
                 = "Invalid status transition"

----------------------------------------------------------------------------
(* C30: the reentrancy lock lives within one call: between two transactions  *)
(* locked is false, and no reconnectWallet sent as a transaction is refused  *)
(* with "Reentrant call".                                                    *)

C30_LockedOnlyWithinACall ==
    /\ locked = FALSE
    /\ ~Failed("reconnectWallet", "Reentrant call")

----------------------------------------------------------------------------
(* C31: emergencyPause succeeds for whatever account calls it and sets       *)
(* locked; once locked is set no operation clears it, and every later        *)
(* reconnectWallet is refused with "Reentrant call". createShipment,         *)
(* addCargoEvent and updateShipmentStatus do not read the flag: they are     *)
(* never refused with "Reentrant call" and go on succeeding while locked.    *)

C31_Writes == {"createShipment", "addCargoEvent", "updateShipmentStatus"}

C31_Step ==
    /\ lastCall'.op = "emergencyPause" => (lastCall'.err = "" /\ locked')
    /\ locked => locked'
    /\ (locked /\ lastCall'.op = "reconnectWallet") => lastCall'.err = "Reentrant call"
    /\ lastCall'.op \in C31_Writes => lastCall'.err # "Reentrant call"
    /\ locked' # locked => lastCall'.op = "emergencyPause"

----------------------------------------------------------------------------
(* C32: in the revision whose guard sets locked before it tests it,          *)
(* reconnectWallet is dead from deployment on: every call, whoever makes it  *)
(* and whatever its arguments, in every reachable state, fails with          *)
(* "Reentrant call", and no shipment's creator is changed by it.             *)

C32_Step ==
    /\ lastCall'.op = "reconnectWallet"
       => /\ lastCall'.err = "Reentrant call"
          /\ shipments' = shipments
          /\ locked' = locked
    /\ \A sender \in Accounts, id \in TrackingIds, newWallet \in Accounts \cup {ZeroAddress} :
          /\ reconnectWalletInvertedErr(sender, id, newWallet) = "Reentrant call"
          /\ reconnectWalletInvertedErr(sender, id, newWallet)' = "Reentrant call"
    /\ \A id \in TrackingIds :
          shipments[id].exists => shipments'[id].creator = shipments[id].creator

C32_ReconnectDeadlocked == [][C32_Step]_vars

\* the lock is free, a shipment exists, and a reconnectWallet has just been refused as
\* reentrant all the same
C32_Witness ==
    /\ variant = "part_002"
    /\ ~locked
    /\ Existing # {}
    /\ Failed("reconnectWallet", "Reentrant call")

----------------------------------------------------------------------------
(* C33: in the draft revision addCargoEvent has neither the creator check    *)
(* nor the increment: on an existing shipment it is accepted for every       *)
(* caller and with empty location or description; each accepted append       *)
(* lengthens the event list by one while eventCounts stays 0, so every       *)
(* stored event has eventId 0; and updateShipmentStatus by the creator is    *)
(* accepted for any target status, backward, skipping or unchanged, at any   *)
(* time.                                                                     *)

C33_Accepts(id) ==
    shipments[id].exists
    => /\ \A sender \in Accounts, location \in Locations, description \in Descriptions :
             addCargoEventDraftErr(sender, id, location, description) = ""
       /\ \A newStatus \in ShipmentStatus :
             updateShipmentStatusDraftErr(shipments[id].creator, id, newStatus) = ""

C33_Step ==
    \A id \in TrackingIds :
        /\ steps = 0 => C33_Accepts(id)
        /\ C33_Accepts(id)'
        /\ eventCounts'[id] = 0
        /\ \A i \in 1..Len(cargoEvents'[id]) : cargoEvents'[id][i].eventId = 0
        /\ ((lastCall.op \in {"addCargoEvent", "updateShipmentStatus"} /\ lastCall.err = ""
             /\ lastCall.trackingId = id)'
            => /\ Len(cargoEvents'[id]) = Len(cargoEvents[id]) + 1
               /\ SubSeq(cargoEvents'[id], 1, Len(cargoEvents[id])) = cargoEvents[id]
               /\ eventCounts'[id] = eventCounts[id])

C33_DraftAppendsUnchecked == [][C33_Step]_vars

\* no time has passed since creation; after an append with an empty location by an
\* account that is not the creator, the creator has moved the status from Arrived back
\* to Created; the list holds three events and eventCounts is still 0
C33_Witness ==
    /\ variant = "part_000"
    /\ Succeeded("updateShipmentStatus")
    /\ \E id \in Existing :
          /\ lastCall.trackingId = id
          /\ now = shipments[id].createdAt
          /\ Len(cargoEvents[id]) = 3
          /\ eventCounts[id] = 0
          /\ cargoEvents[id][1].location = ""
          /\ cargoEvents[id][2].status = Arrived
          /\ cargoEvents[id][3].status = Created
          /\ lastCall.logs[2].oldStatus = Arrived
          /\ lastCall.logs[2].newStatus = Created

----------------------------------------------------------------------------
(* C34: a successful reconnectWallet(id, newWallet) of the encrypted         *)
(* revision hands over the right to write and nothing else: afterwards       *)
(* addCargoEvent and updateShipmentStatus on id by the old creator are       *)
(* refused for not being the creator, the same calls by newWallet get the    *)
(* answer the old creator would have got before, and the event lists,        *)
(* eventCounts, totalShipments, every other shipment, every other field of   *)
(* this one and the set of decrypt capabilities are as before.               *)

C34_Step ==
    \A id \in TrackingIds :
        \A old \in {shipments[id].creator} :
            (variant = "part_001"
             /\ (Succeeded("reconnectWallet") /\ lastCall.trackingId = id)')
            => \A new \in {lastCall'.arg} :
                  /\ old = lastCall'.caller
                  /\ new # old
                  /\ shipments'[id] = [shipments[id] EXCEPT !.creator = new]
                  /\ \A location \in Locations, description \in Descriptions :
                        /\ addCargoEventErr(old, id, location, description)'
                               = "Only shipment creator can add events"
                        /\ \A was \in {addCargoEventErr(old, id, location, description)} :
                              addCargoEventErr(new, id, location, description)' = was
                  /\ \A newStatus \in ShipmentStatus :
                        /\ updateShipmentStatusErr(old, id, newStatus)'
                               = "Only shipment creator can update status"
                        /\ \A was \in {updateShipmentStatusErr(old, id, newStatus)} :
                              updateShipmentStatusErr(new, id, newStatus)' = was
                  /\ cargoEvents' = cargoEvents
                  /\ eventCounts' = eventCounts
                  /\ totalShipments' = totalShipments
                  /\ \A other \in TrackingIds \ {id} : shipments'[other] = shipments[other]
                  /\ acl' = acl

C34_OnlyWriteAuthorityMoves == [][C34_Step]_vars

\* a shipment with a stored event has been handed over: the old creator still holds the
\* capability for its weight and the new creator holds none
C34_Witness ==
    /\ variant = "part_001"
    /\ Succeeded("reconnectWallet")
    /\ \E id \in Existing :
          /\ lastCall.trackingId = id
          /\ shipments[id].creator = lastCall.arg
          /\ Len(cargoEvents[id]) >= 1
          /\ <<cargoEvents[id][1].encryptedWeight, lastCall.caller>> \in acl
          /\ \A g \in acl : g[2] # lastCall.arg
          /\ addCargoEventErr(lastCall.arg, id, "Port", "Loaded") = ""

----------------------------------------------------------------------------
(* C35: in every reachable state of the encrypted revision the               *)
(* encryptedWeight of every stored event is a real handle, not the           *)
(* uninitialised one, and the contract holds a decrypt capability for it;    *)
(* events appended by updateShipmentStatus to a shipment without events and  *)
(* events appended by a new creator are included.                            *)

C35_WeightsAreAdmittedHandles ==
    variant = "part_001"
    => \A id \in TrackingIds :
          \A i \in 1..Len(cargoEvents[id]) :
              /\ cargoEvents[id][i].encryptedWeight # ZeroHandle
              /\ cargoEvents[id][i].encryptedWeight \in WeightHandles
              /\ <<cargoEvents[id][i].encryptedWeight, This>> \in acl

----------------------------------------------------------------------------
(* C36: operations are isolated per trackingId: a createShipment,            *)
(* addCargoEvent, updateShipmentStatus or reconnectWallet on one id,         *)
(* accepted or refused, leaves the shipment record, the event list and the   *)
(* eventCounts of every other id as they were; and every stored event        *)
(* carries the trackingId of the list it is stored in.                       *)

C36_Calls == {"createShipment", "addCargoEvent", "updateShipmentStatus", "reconnectWallet"}

C36_Changed ==
    {id \in TrackingIds : \/ shipments'[id] # shipments[id]
                          \/ cargoEvents'[id] # cargoEvents[id]
                          \/ eventCounts'[id] # eventCounts[id]}

C36_Step ==
    /\ lastCall'.op \in C36_Calls
       => /\ lastCall'.err = "" => C36_Changed \subseteq {lastCall'.trackingId}
          /\ lastCall'.err # "" => C36_Changed = {}
    /\ lastCall'.op \notin C36_Calls => C36_Changed = {}
    /\ \A id \in TrackingIds :
          \A i \in 1..Len(cargoEvents'[id]) : cargoEvents'[id][i].trackingId = id

C36_IsolatedPerTrackingId == [][C36_Step]_vars

\* two shipments exist, each with an event of its own, and an operation on one of
\* them has just succeeded
C36_Witness ==
    /\ lastCall.op \in {"addCargoEvent", "updateShipmentStatus"}
    /\ lastCall.err = ""
    /\ \E a \in Existing, b \in Existing :
          /\ a # b
          /\ lastCall.trackingId = a
          /\ Len(cargoEvents[a]) >= 1
          /\ Len(cargoEvents[b]) >= 1
          /\ cargoEvents[b][1].trackingId = b

----------------------------------------------------------------------------
(* C37: totalShipments always equals the number of trackingIds whose         *)
(* shipment exists; it changes only by +1, on a successful createShipment,   *)
(* and is left as it was by every other operation and by every failed call;  *)
(* an event list is non-empty only for a shipment that exists.               *)

C37_Counted ==
    /\ totalShipments = Cardinality(Existing)
    /\ \A id \in TrackingIds : Len(cargoEvents[id]) > 0 => shipments[id].exists

C37_Step ==
    /\ steps = 0 => C37_Counted
    /\ C37_Counted'
    /\ IF lastCall'.op = "createShipment" /\ lastCall'.err = ""
       THEN /\ totalShipments' = totalShipments + 1
            /\ ~shipments[lastCall'.trackingId].exists
            /\ shipments'[lastCall'.trackingId].exists
       ELSE /\ totalShipments' = totalShipments
            /\ \A id \in TrackingIds : shipments'[id].exists = shipments[id].exists

C37_TotalCountsExisting == [][C37_Step]_vars

\* two shipments have been created and counted, one of them holds an event, and
\* the last call was a refused createShipment
C37_Witness ==
    /\ totalShipments = 2
    /\ Cardinality(Existing) = 2
    /\ \E id \in Existing : Len(cargoEvents[id]) > 0
    /\ lastCall.op = "createShipment"
    /\ lastCall.err # ""

----------------------------------------------------------------------------
(* C38: the ledger clock never runs backwards, and then, for every shipment, *)
(* the timestamps of its stored events are non-decreasing in index order and *)
(* each is at least the shipment's createdAt; the event appended by a        *)
(* successful updateShipmentStatus is stamped at least one hour after        *)
(* createdAt.                                                                *)

C38_Ordered(id) ==
    /\ \A i \in 1..Len(cargoEvents[id]) :
          /\ cargoEvents[id][i].timestamp >= shipments[id].createdAt
          /\ cargoEvents[id][i].timestamp <= now
    /\ \A i \in 1..(Len(cargoEvents[id]) - 1) :
          cargoEvents[id][i].timestamp <= cargoEvents[id][i + 1].timestamp

C38_Step ==
    /\ now' >= now
    /\ steps = 0 => \A id \in TrackingIds : C38_Ordered(id)
    /\ lastCall'.err = "" /\ lastCall'.op \in {"addCargoEvent", "updateShipmentStatus"}
       => \A id \in {lastCall'.trackingId} : C38_Ordered(id)'
    /\ lastCall'.err = "" /\ lastCall'.op = "updateShipmentStatus"
       => \A id \in {lastCall'.trackingId} :
             /\ Len(cargoEvents'[id]) = Len(cargoEvents[id]) + 1
             /\ cargoEvents'[id][Len(cargoEvents'[id])].timestamp
                   >= shipments'[id].createdAt + OneHour
    /\ ~(lastCall'.err = "" /\ lastCall'.op \in {"addCargoEvent", "updateShipmentStatus"})
       => \A id \in TrackingIds :
             /\ cargoEvents'[id] = cargoEvents[id]
             /\ shipments[id].exists => shipments'[id].createdAt = shipments[id].createdAt

C38_TimestampsFollowTheClock == [][C38_Step]_vars

\* a shipment holds an event stamped at its creation time followed by a status
\* update stamped an hour or more later
C38_Witness ==
    /\ lastCall.op = "updateShipmentStatus"
    /\ lastCall.err = ""
    /\ \E id \in Existing :
          /\ lastCall.trackingId = id
          /\ Len(cargoEvents[id]) >= 2
          /\ cargoEvents[id][1].timestamp = shipments[id].createdAt
          /\ cargoEvents[id][Len(cargoEvents[id])].timestamp >= shipments[id].createdAt + OneHour
          /\ cargoEvents[id][1].timestamp < cargoEvents[id][Len(cargoEvents[id])].timestamp

----------------------------------------------------------------------------
(* C39: initialization of the FHE instance is retried a bounded number of    *)
(* times: while the wallet stays connected, at most 2 calls of initializeFHE *)
(* come from the retry timer, and createFhevmInstance is called at most 3    *)
(* times in all (the first call and the two retries).                        *)

C39_RetriesBounded ==
    hook.changes = 1 => /\ hook.retries <= 2
                        /\ hook.attempts <= 3

====
